---- MODULE Spec2Model ----
(***************************************************************************)
(* Model of the nexgen tool components: StockCheckTool.build               *)
(* (inventorycheck.py), PriceCheckTool.build (pricecheck.py) and           *)
(* CreditCheckTool.build (checkcredit.py).                                 *)
(*                                                                         *)
(* A Python str is a sequence of one-character strings.  A character       *)
(* outside printable ASCII other than tab, line feed, form feed and        *)
(* carriage return, and the backtick, is written as its code point:        *)
(* "U+00A0" is NO-BREAK SPACE, "U+0663" ARABIC-INDIC DIGIT THREE.  A       *)
(* message that the code builds with an f-string is a sequence of          *)
(* fragments (literal pieces and characters) whose concatenation is the    *)
(* Python text.  A Python int is its decimal numeral (the characters of    *)
(* str(n)), so that no width is imposed on it.  A Python float is the      *)
(* exact decimal expansion of the double it holds.  A value of a JSON      *)
(* reply is a str or a sequence that is no str, its first element not      *)
(* being a character: None, True, False, or "int" before the numeral of    *)
(* an int.                                                                 *)
(***************************************************************************)
EXTENDS Integers, Sequences, FiniteSets, TLC

\* None, for a variable that otherwise holds a str or an int numeral: a
\* sequence that is no str, its one element not being a character.
None == <<"None">>

(***************************************************************************)
(* str methods                                                             *)
(***************************************************************************)
\* str.isspace(): the characters str.strip() removes when given no argument.
Whitespace ==
    {"\t", "\n", "U+000B", "\f", "\r", "U+001C", "U+001D", "U+001E",
     "U+001F", " ", "U+0085", "U+00A0", "U+1680", "U+2000", "U+2001",
     "U+2002", "U+2003", "U+2004", "U+2005", "U+2006", "U+2007", "U+2008",
     "U+2009", "U+200A", "U+2028", "U+2029", "U+202F", "U+205F", "U+3000"}

\* str.lstrip(chars) and str.rstrip(chars)
lstrip(s, chars) ==
    LET i == CHOOSE i \in 1..(Len(s) + 1) :
                 /\ i = Len(s) + 1 \/ s[i] \notin chars
                 /\ \A j \in 1..(i - 1) : s[j] \in chars
    IN  SubSeq(s, i, Len(s))

rstrip(s, chars) ==
    LET n == Len(s)
        i == CHOOSE i \in 0..n :
                 /\ i = n \/ s[n - i] \notin chars
                 /\ \A j \in 0..(i - 1) : s[n - j] \in chars
    IN  SubSeq(s, 1, n - i)

\* A mutation of strip: at most one character is removed from each end.
strip_one(s, chars) ==
    LET l == IF s # <<>> /\ Head(s) \in chars THEN Tail(s) ELSE s
    IN  IF l # <<>> /\ l[Len(l)] \in chars
        THEN SubSeq(l, 1, Len(l) - 1) ELSE l

\* str.strip(chars): every leading and every trailing character of chars.
strip(s, chars) == rstrip(lstrip(s, chars), chars)

\* Index of the first occurrence of c in s, 0 when there is none.
find(s, c) ==
    IF \E i \in 1..Len(s) : s[i] = c
    THEN CHOOSE i \in 1..Len(s) : s[i] = c /\ \A j \in 1..(i - 1) : s[j] # c
    ELSE 0

\* str.split(sep): never empty, not quote-aware.
RECURSIVE split(_, _)
split(s, sep) ==
    LET i == find(s, sep)
    IN  IF i = 0 THEN <<s>>
        ELSE <<SubSeq(s, 1, i - 1)>> \o split(SubSeq(s, i + 1, Len(s)), sep)

\* str.split(sep, maxsplit=1)
split1(s, sep) ==
    LET i == find(s, sep)
    IN  IF i = 0 THEN <<s>>
        ELSE <<SubSeq(s, 1, i - 1), SubSeq(s, i + 1, Len(s))>>

\* sep.join(xs)
RECURSIVE join(_, _)
join(xs, sep) ==
    IF xs = <<>> THEN <<>>
    ELSE IF Len(xs) = 1 THEN xs[1]
    ELSE xs[1] \o sep \o join(Tail(xs), sep)

(***************************************************************************)
(* The values of a JSON reply: bool(v), str(v) and repr(v)                 *)
(***************************************************************************)
True == <<"True">>
False == <<"False">>
IntValue(n) == <<"int">> \o n
IsInt(v) == v # <<>> /\ v[1] = "int"

\* The value of a key the JSON object does not hold.
Absent == <<"absent">>

\* dict.get(key) and dict.get(key, default), v being the value of the key.
get(v) == IF v = Absent THEN None ELSE v
get_default(v, default) == IF v = Absent THEN default ELSE v

\* The truth value of v, as in "if v".
bool(v) ==
    IF v = None \/ v = False THEN FALSE
    ELSE IF v = True THEN TRUE
    ELSE IF IsInt(v) THEN Tail(v) # <<"0">>
    ELSE v # <<>>

\* str(v), the text an f-string writes for v.
str(v) ==
    IF v = None THEN <<"N", "o", "n", "e">>
    ELSE IF v = True THEN <<"T", "r", "u", "e">>
    ELSE IF v = False THEN <<"F", "a", "l", "s", "e">>
    ELSE IF IsInt(v) THEN Tail(v)
    ELSE v

\* The code points of the characters str.isprintable() refuses (Unicode
\* 14.0: the categories Cc, Cf, Cs, Co, Cn, Zl, Zp, and Zs but the space),
\* as ranges <<first, last>>, none across U+FFFF or U+FFFFF.
NonPrintable ==
    {<<0, 31>>, <<127, 160>>, <<173, 173>>, <<888, 889>>, <<896, 899>>,
     <<907, 907>>, <<909, 909>>, <<930, 930>>, <<1328, 1328>>,
     <<1367, 1368>>, <<1419, 1420>>, <<1424, 1424>>, <<1480, 1487>>,
     <<1515, 1518>>, <<1525, 1541>>, <<1564, 1564>>, <<1757, 1757>>,
     <<1806, 1807>>, <<1867, 1868>>, <<1970, 1983>>, <<2043, 2044>>,
     <<2094, 2095>>, <<2111, 2111>>, <<2140, 2141>>, <<2143, 2143>>,
     <<2155, 2159>>, <<2191, 2199>>, <<2274, 2274>>, <<2436, 2436>>,
     <<2445, 2446>>, <<2449, 2450>>, <<2473, 2473>>, <<2481, 2481>>,
     <<2483, 2485>>, <<2490, 2491>>, <<2501, 2502>>, <<2505, 2506>>,
     <<2511, 2518>>, <<2520, 2523>>, <<2526, 2526>>, <<2532, 2533>>,
     <<2559, 2560>>, <<2564, 2564>>, <<2571, 2574>>, <<2577, 2578>>,
     <<2601, 2601>>, <<2609, 2609>>, <<2612, 2612>>, <<2615, 2615>>,
     <<2618, 2619>>, <<2621, 2621>>, <<2627, 2630>>, <<2633, 2634>>,
     <<2638, 2640>>, <<2642, 2648>>, <<2653, 2653>>, <<2655, 2661>>,
     <<2679, 2688>>, <<2692, 2692>>, <<2702, 2702>>, <<2706, 2706>>,
     <<2729, 2729>>, <<2737, 2737>>, <<2740, 2740>>, <<2746, 2747>>,
     <<2758, 2758>>, <<2762, 2762>>, <<2766, 2767>>, <<2769, 2783>>,
     <<2788, 2789>>, <<2802, 2808>>, <<2816, 2816>>, <<2820, 2820>>,
     <<2829, 2830>>, <<2833, 2834>>, <<2857, 2857>>, <<2865, 2865>>,
     <<2868, 2868>>, <<2874, 2875>>, <<2885, 2886>>, <<2889, 2890>>,
     <<2894, 2900>>, <<2904, 2907>>, <<2910, 2910>>, <<2916, 2917>>,
     <<2936, 2945>>, <<2948, 2948>>, <<2955, 2957>>, <<2961, 2961>>,
     <<2966, 2968>>, <<2971, 2971>>, <<2973, 2973>>, <<2976, 2978>>,
     <<2981, 2983>>, <<2987, 2989>>, <<3002, 3005>>, <<3011, 3013>>,
     <<3017, 3017>>, <<3022, 3023>>, <<3025, 3030>>, <<3032, 3045>>,
     <<3067, 3071>>, <<3085, 3085>>, <<3089, 3089>>, <<3113, 3113>>,
     <<3130, 3131>>, <<3141, 3141>>, <<3145, 3145>>, <<3150, 3156>>,
     <<3159, 3159>>, <<3163, 3164>>, <<3166, 3167>>, <<3172, 3173>>,
     <<3184, 3190>>, <<3213, 3213>>, <<3217, 3217>>, <<3241, 3241>>,
     <<3252, 3252>>, <<3258, 3259>>, <<3269, 3269>>, <<3273, 3273>>,
     <<3278, 3284>>, <<3287, 3292>>, <<3295, 3295>>, <<3300, 3301>>,
     <<3312, 3312>>, <<3315, 3327>>, <<3341, 3341>>, <<3345, 3345>>,
     <<3397, 3397>>, <<3401, 3401>>, <<3408, 3411>>, <<3428, 3429>>,
     <<3456, 3456>>, <<3460, 3460>>, <<3479, 3481>>, <<3506, 3506>>,
     <<3516, 3516>>, <<3518, 3519>>, <<3527, 3529>>, <<3531, 3534>>,
     <<3541, 3541>>, <<3543, 3543>>, <<3552, 3557>>, <<3568, 3569>>,
     <<3573, 3584>>, <<3643, 3646>>, <<3676, 3712>>, <<3715, 3715>>,
     <<3717, 3717>>, <<3723, 3723>>, <<3748, 3748>>, <<3750, 3750>>,
     <<3774, 3775>>, <<3781, 3781>>, <<3783, 3783>>, <<3790, 3791>>,
     <<3802, 3803>>, <<3808, 3839>>, <<3912, 3912>>, <<3949, 3952>>,
     <<3992, 3992>>, <<4029, 4029>>, <<4045, 4045>>, <<4059, 4095>>,
     <<4294, 4294>>, <<4296, 4300>>, <<4302, 4303>>, <<4681, 4681>>,
     <<4686, 4687>>, <<4695, 4695>>, <<4697, 4697>>, <<4702, 4703>>,
     <<4745, 4745>>, <<4750, 4751>>, <<4785, 4785>>, <<4790, 4791>>,
     <<4799, 4799>>, <<4801, 4801>>, <<4806, 4807>>, <<4823, 4823>>,
     <<4881, 4881>>, <<4886, 4887>>, <<4955, 4956>>, <<4989, 4991>>,
     <<5018, 5023>>, <<5110, 5111>>, <<5118, 5119>>, <<5760, 5760>>,
     <<5789, 5791>>, <<5881, 5887>>, <<5910, 5918>>, <<5943, 5951>>,
     <<5972, 5983>>, <<5997, 5997>>, <<6001, 6001>>, <<6004, 6015>>,
     <<6110, 6111>>, <<6122, 6127>>, <<6138, 6143>>, <<6158, 6158>>,
     <<6170, 6175>>, <<6265, 6271>>, <<6315, 6319>>, <<6390, 6399>>,
     <<6431, 6431>>, <<6444, 6447>>, <<6460, 6463>>, <<6465, 6467>>,
     <<6510, 6511>>, <<6517, 6527>>, <<6572, 6575>>, <<6602, 6607>>,
     <<6619, 6621>>, <<6684, 6685>>, <<6751, 6751>>, <<6781, 6782>>,
     <<6794, 6799>>, <<6810, 6815>>, <<6830, 6831>>, <<6863, 6911>>,
     <<6989, 6991>>, <<7039, 7039>>, <<7156, 7163>>, <<7224, 7226>>,
     <<7242, 7244>>, <<7305, 7311>>, <<7355, 7356>>, <<7368, 7375>>,
     <<7419, 7423>>, <<7958, 7959>>, <<7966, 7967>>, <<8006, 8007>>,
     <<8014, 8015>>, <<8024, 8024>>, <<8026, 8026>>, <<8028, 8028>>,
     <<8030, 8030>>, <<8062, 8063>>, <<8117, 8117>>, <<8133, 8133>>,
     <<8148, 8149>>, <<8156, 8156>>, <<8176, 8177>>, <<8181, 8181>>,
     <<8191, 8207>>, <<8232, 8239>>, <<8287, 8303>>, <<8306, 8307>>,
     <<8335, 8335>>, <<8349, 8351>>, <<8385, 8399>>, <<8433, 8447>>,
     <<8588, 8591>>, <<9255, 9279>>, <<9291, 9311>>, <<11124, 11125>>,
     <<11158, 11158>>, <<11508, 11512>>, <<11558, 11558>>,
     <<11560, 11564>>, <<11566, 11567>>, <<11624, 11630>>,
     <<11633, 11646>>, <<11671, 11679>>, <<11687, 11687>>,
     <<11695, 11695>>, <<11703, 11703>>, <<11711, 11711>>,
     <<11719, 11719>>, <<11727, 11727>>, <<11735, 11735>>,
     <<11743, 11743>>, <<11870, 11903>>, <<11930, 11930>>,
     <<12020, 12031>>, <<12246, 12271>>, <<12284, 12288>>,
     <<12352, 12352>>, <<12439, 12440>>, <<12544, 12548>>,
     <<12592, 12592>>, <<12687, 12687>>, <<12772, 12783>>,
     <<12831, 12831>>, <<42125, 42127>>, <<42183, 42191>>,
     <<42540, 42559>>, <<42744, 42751>>, <<42955, 42959>>,
     <<42962, 42962>>, <<42964, 42964>>, <<42970, 42993>>,
     <<43053, 43055>>, <<43066, 43071>>, <<43128, 43135>>,
     <<43206, 43213>>, <<43226, 43231>>, <<43348, 43358>>,
     <<43389, 43391>>, <<43470, 43470>>, <<43482, 43485>>,
     <<43519, 43519>>, <<43575, 43583>>, <<43598, 43599>>,
     <<43610, 43611>>, <<43715, 43738>>, <<43767, 43776>>,
     <<43783, 43784>>, <<43791, 43792>>, <<43799, 43807>>,
     <<43815, 43815>>, <<43823, 43823>>, <<43884, 43887>>,
     <<44014, 44015>>, <<44026, 44031>>, <<55204, 55215>>,
     <<55239, 55242>>, <<55292, 63743>>, <<64110, 64111>>,
     <<64218, 64255>>, <<64263, 64274>>, <<64280, 64284>>,
     <<64311, 64311>>, <<64317, 64317>>, <<64319, 64319>>,
     <<64322, 64322>>, <<64325, 64325>>, <<64451, 64466>>,
     <<64912, 64913>>, <<64968, 64974>>, <<64976, 65007>>,
     <<65050, 65055>>, <<65107, 65107>>, <<65127, 65127>>,
     <<65132, 65135>>, <<65141, 65141>>, <<65277, 65280>>,
     <<65471, 65473>>, <<65480, 65481>>, <<65488, 65489>>,
     <<65496, 65497>>, <<65501, 65503>>, <<65511, 65511>>,
     <<65519, 65531>>, <<65534, 65535>>, <<65548, 65548>>,
     <<65575, 65575>>, <<65595, 65595>>, <<65598, 65598>>,
     <<65614, 65615>>, <<65630, 65663>>, <<65787, 65791>>,
     <<65795, 65798>>, <<65844, 65846>>, <<65935, 65935>>,
     <<65949, 65951>>, <<65953, 65999>>, <<66046, 66175>>,
     <<66205, 66207>>, <<66257, 66271>>, <<66300, 66303>>,
     <<66340, 66348>>, <<66379, 66383>>, <<66427, 66431>>,
     <<66462, 66462>>, <<66500, 66503>>, <<66518, 66559>>,
     <<66718, 66719>>, <<66730, 66735>>, <<66772, 66775>>,
     <<66812, 66815>>, <<66856, 66863>>, <<66916, 66926>>,
     <<66939, 66939>>, <<66955, 66955>>, <<66963, 66963>>,
     <<66966, 66966>>, <<66978, 66978>>, <<66994, 66994>>,
     <<67002, 67002>>, <<67005, 67071>>, <<67383, 67391>>,
     <<67414, 67423>>, <<67432, 67455>>, <<67462, 67462>>,
     <<67505, 67505>>, <<67515, 67583>>, <<67590, 67591>>,
     <<67593, 67593>>, <<67638, 67638>>, <<67641, 67643>>,
     <<67645, 67646>>, <<67670, 67670>>, <<67743, 67750>>,
     <<67760, 67807>>, <<67827, 67827>>, <<67830, 67834>>,
     <<67868, 67870>>, <<67898, 67902>>, <<67904, 67967>>,
     <<68024, 68027>>, <<68048, 68049>>, <<68100, 68100>>,
     <<68103, 68107>>, <<68116, 68116>>, <<68120, 68120>>,
     <<68150, 68151>>, <<68155, 68158>>, <<68169, 68175>>,
     <<68185, 68191>>, <<68256, 68287>>, <<68327, 68330>>,
     <<68343, 68351>>, <<68406, 68408>>, <<68438, 68439>>,
     <<68467, 68471>>, <<68498, 68504>>, <<68509, 68520>>,
     <<68528, 68607>>, <<68681, 68735>>, <<68787, 68799>>,
     <<68851, 68857>>, <<68904, 68911>>, <<68922, 69215>>,
     <<69247, 69247>>, <<69290, 69290>>, <<69294, 69295>>,
     <<69298, 69375>>, <<69416, 69423>>, <<69466, 69487>>,
     <<69514, 69551>>, <<69580, 69599>>, <<69623, 69631>>,
     <<69710, 69713>>, <<69750, 69758>>, <<69821, 69821>>,
     <<69827, 69839>>, <<69865, 69871>>, <<69882, 69887>>,
     <<69941, 69941>>, <<69960, 69967>>, <<70007, 70015>>,
     <<70112, 70112>>, <<70133, 70143>>, <<70162, 70162>>,
     <<70207, 70271>>, <<70279, 70279>>, <<70281, 70281>>,
     <<70286, 70286>>, <<70302, 70302>>, <<70314, 70319>>,
     <<70379, 70383>>, <<70394, 70399>>, <<70404, 70404>>,
     <<70413, 70414>>, <<70417, 70418>>, <<70441, 70441>>,
     <<70449, 70449>>, <<70452, 70452>>, <<70458, 70458>>,
     <<70469, 70470>>, <<70473, 70474>>, <<70478, 70479>>,
     <<70481, 70486>>, <<70488, 70492>>, <<70500, 70501>>,
     <<70509, 70511>>, <<70517, 70655>>, <<70748, 70748>>,
     <<70754, 70783>>, <<70856, 70863>>, <<70874, 71039>>,
     <<71094, 71095>>, <<71134, 71167>>, <<71237, 71247>>,
     <<71258, 71263>>, <<71277, 71295>>, <<71354, 71359>>,
     <<71370, 71423>>, <<71451, 71452>>, <<71468, 71471>>,
     <<71495, 71679>>, <<71740, 71839>>, <<71923, 71934>>,
     <<71943, 71944>>, <<71946, 71947>>, <<71956, 71956>>,
     <<71959, 71959>>, <<71990, 71990>>, <<71993, 71994>>,
     <<72007, 72015>>, <<72026, 72095>>, <<72104, 72105>>,
     <<72152, 72153>>, <<72165, 72191>>, <<72264, 72271>>,
     <<72355, 72367>>, <<72441, 72703>>, <<72713, 72713>>,
     <<72759, 72759>>, <<72774, 72783>>, <<72813, 72815>>,
     <<72848, 72849>>, <<72872, 72872>>, <<72887, 72959>>,
     <<72967, 72967>>, <<72970, 72970>>, <<73015, 73017>>,
     <<73019, 73019>>, <<73022, 73022>>, <<73032, 73039>>,
     <<73050, 73055>>, <<73062, 73062>>, <<73065, 73065>>,
     <<73103, 73103>>, <<73106, 73106>>, <<73113, 73119>>,
     <<73130, 73439>>, <<73465, 73647>>, <<73649, 73663>>,
     <<73714, 73726>>, <<74650, 74751>>, <<74863, 74863>>,
     <<74869, 74879>>, <<75076, 77711>>, <<77811, 77823>>,
     <<78895, 82943>>, <<83527, 92159>>, <<92729, 92735>>,
     <<92767, 92767>>, <<92778, 92781>>, <<92863, 92863>>,
     <<92874, 92879>>, <<92910, 92911>>, <<92918, 92927>>,
     <<92998, 93007>>, <<93018, 93018>>, <<93026, 93026>>,
     <<93048, 93052>>, <<93072, 93759>>, <<93851, 93951>>,
     <<94027, 94030>>, <<94088, 94094>>, <<94112, 94175>>,
     <<94181, 94191>>, <<94194, 94207>>, <<100344, 100351>>,
     <<101590, 101631>>, <<101641, 110575>>, <<110580, 110580>>,
     <<110588, 110588>>, <<110591, 110591>>, <<110883, 110927>>,
     <<110931, 110947>>, <<110952, 110959>>, <<111356, 113663>>,
     <<113771, 113775>>, <<113789, 113791>>, <<113801, 113807>>,
     <<113818, 113819>>, <<113824, 118527>>, <<118574, 118575>>,
     <<118599, 118607>>, <<118724, 118783>>, <<119030, 119039>>,
     <<119079, 119080>>, <<119155, 119162>>, <<119275, 119295>>,
     <<119366, 119519>>, <<119540, 119551>>, <<119639, 119647>>,
     <<119673, 119807>>, <<119893, 119893>>, <<119965, 119965>>,
     <<119968, 119969>>, <<119971, 119972>>, <<119975, 119976>>,
     <<119981, 119981>>, <<119994, 119994>>, <<119996, 119996>>,
     <<120004, 120004>>, <<120070, 120070>>, <<120075, 120076>>,
     <<120085, 120085>>, <<120093, 120093>>, <<120122, 120122>>,
     <<120127, 120127>>, <<120133, 120133>>, <<120135, 120137>>,
     <<120145, 120145>>, <<120486, 120487>>, <<120780, 120781>>,
     <<121484, 121498>>, <<121504, 121504>>, <<121520, 122623>>,
     <<122655, 122879>>, <<122887, 122887>>, <<122905, 122906>>,
     <<122914, 122914>>, <<122917, 122917>>, <<122923, 123135>>,
     <<123181, 123183>>, <<123198, 123199>>, <<123210, 123213>>,
     <<123216, 123535>>, <<123567, 123583>>, <<123642, 123646>>,
     <<123648, 124895>>, <<124903, 124903>>, <<124908, 124908>>,
     <<124911, 124911>>, <<124927, 124927>>, <<125125, 125126>>,
     <<125143, 125183>>, <<125260, 125263>>, <<125274, 125277>>,
     <<125280, 126064>>, <<126133, 126208>>, <<126270, 126463>>,
     <<126468, 126468>>, <<126496, 126496>>, <<126499, 126499>>,
     <<126501, 126502>>, <<126504, 126504>>, <<126515, 126515>>,
     <<126520, 126520>>, <<126522, 126522>>, <<126524, 126529>>,
     <<126531, 126534>>, <<126536, 126536>>, <<126538, 126538>>,
     <<126540, 126540>>, <<126544, 126544>>, <<126547, 126547>>,
     <<126549, 126550>>, <<126552, 126552>>, <<126554, 126554>>,
     <<126556, 126556>>, <<126558, 126558>>, <<126560, 126560>>,
     <<126563, 126563>>, <<126565, 126566>>, <<126571, 126571>>,
     <<126579, 126579>>, <<126584, 126584>>, <<126589, 126589>>,
     <<126591, 126591>>, <<126602, 126602>>, <<126620, 126624>>,
     <<126628, 126628>>, <<126634, 126634>>, <<126652, 126703>>,
     <<126706, 126975>>, <<127020, 127023>>, <<127124, 127135>>,
     <<127151, 127152>>, <<127168, 127168>>, <<127184, 127184>>,
     <<127222, 127231>>, <<127406, 127461>>, <<127491, 127503>>,
     <<127548, 127551>>, <<127561, 127567>>, <<127570, 127583>>,
     <<127590, 127743>>, <<128728, 128732>>, <<128749, 128751>>,
     <<128765, 128767>>, <<128884, 128895>>, <<128985, 128991>>,
     <<129004, 129007>>, <<129009, 129023>>, <<129036, 129039>>,
     <<129096, 129103>>, <<129114, 129119>>, <<129160, 129167>>,
     <<129198, 129199>>, <<129202, 129279>>, <<129620, 129631>>,
     <<129646, 129647>>, <<129653, 129655>>, <<129661, 129663>>,
     <<129671, 129679>>, <<129709, 129711>>, <<129723, 129727>>,
     <<129734, 129743>>, <<129754, 129759>>, <<129768, 129775>>,
     <<129783, 129791>>, <<129939, 129939>>, <<129995, 130031>>,
     <<130042, 131071>>, <<173792, 173823>>, <<177977, 177983>>,
     <<178206, 178207>>, <<183970, 183983>>, <<191457, 194559>>,
     <<195102, 196607>>, <<201547, 917759>>, <<918000, 1048575>>,
     <<1048576, 1114111>>}

\* The name of the character of code point n, as a str holds it.
HexDigits == <<"0", "1", "2", "3", "4", "5", "6", "7", "8", "9",
               "A", "B", "C", "D", "E", "F">>
LowerHexDigits == <<"0", "1", "2", "3", "4", "5", "6", "7", "8", "9",
                    "a", "b", "c", "d", "e", "f">>
Hex(n, place) == HexDigits[((n \div place) % 16) + 1]
LowerHex(n, place) == LowerHexDigits[((n \div place) % 16) + 1]
HexWidth(n) == IF n < 65536 THEN 4 ELSE IF n < 1048576 THEN 5 ELSE 6
CharName(n) ==
    (IF n < 65536 THEN "U+"
     ELSE IF n < 1048576 THEN "U+" \o Hex(n, 65536)
     ELSE "U+" \o Hex(n, 1048576) \o Hex(n, 65536))
        \o Hex(n, 4096) \o Hex(n, 256) \o Hex(n, 16) \o Hex(n, 1)

\* Whether c is written "U+..." and is not printable, and its code point.
IsCodeOf(c, r) ==
    /\ HexWidth(r[1]) = Len(c) - 2
    /\ \E n \in r[1]..r[2] : CharName(n) = c
IsNonPrintable(c) == \E r \in NonPrintable : IsCodeOf(c, r)
CodePoint(c) ==
    LET r == CHOOSE r \in NonPrintable : IsCodeOf(c, r)
    IN  CHOOSE n \in r[1]..r[2] : CharName(n) = c

\* repr's escape of the character of code point n: \xhh, \uhhhh or
\* \Uhhhhhhhh.
unicode_escape(n) ==
    IF n < 256 THEN <<"\\", "x", LowerHex(n, 16), LowerHex(n, 1)>>
    ELSE IF n < 65536
    THEN <<"\\", "u", LowerHex(n, 4096), LowerHex(n, 256), LowerHex(n, 16),
           LowerHex(n, 1)>>
    ELSE <<"\\", "U", "0", "0", LowerHex(n, 1048576), LowerHex(n, 65536),
           LowerHex(n, 4096), LowerHex(n, 256), LowerHex(n, 16),
           LowerHex(n, 1)>>

\* repr(s) for a str s: between apostrophes, or between double quotes when
\* s holds an apostrophe and no double quote; the quote, the backslash and
\* the characters that are not printable are escaped.
unicode_repr(s) ==
    LET quote == IF (\E i \in 1..Len(s) : s[i] = "'")
                    /\ ~(\E i \in 1..Len(s) : s[i] = "\"")
                 THEN "\"" ELSE "'"
        Written(c) ==
            IF c = quote \/ c = "\\" THEN <<"\\", c>>
            ELSE IF c = "\t" THEN <<"\\", "t">>
            ELSE IF c = "\n" THEN <<"\\", "n">>
            ELSE IF c = "\r" THEN <<"\\", "r">>
            ELSE IF c = "\f" THEN unicode_escape(12)
            ELSE IF IsNonPrintable(c) THEN unicode_escape(CodePoint(c))
            ELSE <<c>>
    IN  <<quote>> \o join([i \in 1..Len(s) |-> Written(s[i])], <<>>)
            \o <<quote>>

\* repr(v), the text str(dict) writes for a value v of the dict.
repr(v) ==
    IF v = None \/ v = True \/ v = False \/ IsInt(v) THEN str(v)
    ELSE unicode_repr(v)

(***************************************************************************)
(* float(str) and int(float)                                               *)
(*                                                                         *)
(* A float is a record: cls is "finite", "inf" or "nan"; a finite value is *)
(* (-1)^neg * 0.d1d2...dn * 10^exp with digits = <<d1, ..., dn>> carrying  *)
(* neither leading nor trailing zeros (zero has no digits and exp = 0).    *)
(* The record holds the exact decimal expansion of the double: float       *)
(* rounds the numeral to 53 bits, to nearest and ties to even, as          *)
(* PyOS_string_to_double does.                                             *)
(***************************************************************************)
DigitChars == <<"0", "1", "2", "3", "4", "5", "6", "7", "8", "9">>

\* The decimal digits (category Nd) of each value: DecimalDigits[v + 1] are
\* the characters c with int(c) = v; \d of re matches exactly these.
DecimalDigits ==
    <<
      {"0", "U+0660", "U+06F0", "U+07C0", "U+0966", "U+09E6", "U+0A66",
       "U+0AE6", "U+0B66", "U+0BE6", "U+0C66", "U+0CE6", "U+0D66",
       "U+0DE6", "U+0E50", "U+0ED0", "U+0F20", "U+1040", "U+1090",
       "U+17E0", "U+1810", "U+1946", "U+19D0", "U+1A80", "U+1A90",
       "U+1B50", "U+1BB0", "U+1C40", "U+1C50", "U+A620", "U+A8D0",
       "U+A900", "U+A9D0", "U+A9F0", "U+AA50", "U+ABF0", "U+FF10",
       "U+104A0", "U+10D30", "U+11066", "U+110F0", "U+11136", "U+111D0",
       "U+112F0", "U+11450", "U+114D0", "U+11650", "U+116C0", "U+11730",
       "U+118E0", "U+11950", "U+11C50", "U+11D50", "U+11DA0", "U+16A60",
       "U+16AC0", "U+16B50", "U+1D7CE", "U+1D7D8", "U+1D7E2", "U+1D7EC",
       "U+1D7F6", "U+1E140", "U+1E2F0", "U+1E950", "U+1FBF0"},
      {"1", "U+0661", "U+06F1", "U+07C1", "U+0967", "U+09E7", "U+0A67",
       "U+0AE7", "U+0B67", "U+0BE7", "U+0C67", "U+0CE7", "U+0D67",
       "U+0DE7", "U+0E51", "U+0ED1", "U+0F21", "U+1041", "U+1091",
       "U+17E1", "U+1811", "U+1947", "U+19D1", "U+1A81", "U+1A91",
       "U+1B51", "U+1BB1", "U+1C41", "U+1C51", "U+A621", "U+A8D1",
       "U+A901", "U+A9D1", "U+A9F1", "U+AA51", "U+ABF1", "U+FF11",
       "U+104A1", "U+10D31", "U+11067", "U+110F1", "U+11137", "U+111D1",
       "U+112F1", "U+11451", "U+114D1", "U+11651", "U+116C1", "U+11731",
       "U+118E1", "U+11951", "U+11C51", "U+11D51", "U+11DA1", "U+16A61",
       "U+16AC1", "U+16B51", "U+1D7CF", "U+1D7D9", "U+1D7E3", "U+1D7ED",
       "U+1D7F7", "U+1E141", "U+1E2F1", "U+1E951", "U+1FBF1"},
      {"2", "U+0662", "U+06F2", "U+07C2", "U+0968", "U+09E8", "U+0A68",
       "U+0AE8", "U+0B68", "U+0BE8", "U+0C68", "U+0CE8", "U+0D68",
       "U+0DE8", "U+0E52", "U+0ED2", "U+0F22", "U+1042", "U+1092",
       "U+17E2", "U+1812", "U+1948", "U+19D2", "U+1A82", "U+1A92",
       "U+1B52", "U+1BB2", "U+1C42", "U+1C52", "U+A622", "U+A8D2",
       "U+A902", "U+A9D2", "U+A9F2", "U+AA52", "U+ABF2", "U+FF12",
       "U+104A2", "U+10D32", "U+11068", "U+110F2", "U+11138", "U+111D2",
       "U+112F2", "U+11452", "U+114D2", "U+11652", "U+116C2", "U+11732",
       "U+118E2", "U+11952", "U+11C52", "U+11D52", "U+11DA2", "U+16A62",
       "U+16AC2", "U+16B52", "U+1D7D0", "U+1D7DA", "U+1D7E4", "U+1D7EE",
       "U+1D7F8", "U+1E142", "U+1E2F2", "U+1E952", "U+1FBF2"},
      {"3", "U+0663", "U+06F3", "U+07C3", "U+0969", "U+09E9", "U+0A69",
       "U+0AE9", "U+0B69", "U+0BE9", "U+0C69", "U+0CE9", "U+0D69",
       "U+0DE9", "U+0E53", "U+0ED3", "U+0F23", "U+1043", "U+1093",
       "U+17E3", "U+1813", "U+1949", "U+19D3", "U+1A83", "U+1A93",
       "U+1B53", "U+1BB3", "U+1C43", "U+1C53", "U+A623", "U+A8D3",
       "U+A903", "U+A9D3", "U+A9F3", "U+AA53", "U+ABF3", "U+FF13",
       "U+104A3", "U+10D33", "U+11069", "U+110F3", "U+11139", "U+111D3",
       "U+112F3", "U+11453", "U+114D3", "U+11653", "U+116C3", "U+11733",
       "U+118E3", "U+11953", "U+11C53", "U+11D53", "U+11DA3", "U+16A63",
       "U+16AC3", "U+16B53", "U+1D7D1", "U+1D7DB", "U+1D7E5", "U+1D7EF",
       "U+1D7F9", "U+1E143", "U+1E2F3", "U+1E953", "U+1FBF3"},
      {"4", "U+0664", "U+06F4", "U+07C4", "U+096A", "U+09EA", "U+0A6A",
       "U+0AEA", "U+0B6A", "U+0BEA", "U+0C6A", "U+0CEA", "U+0D6A",
       "U+0DEA", "U+0E54", "U+0ED4", "U+0F24", "U+1044", "U+1094",
       "U+17E4", "U+1814", "U+194A", "U+19D4", "U+1A84", "U+1A94",
       "U+1B54", "U+1BB4", "U+1C44", "U+1C54", "U+A624", "U+A8D4",
       "U+A904", "U+A9D4", "U+A9F4", "U+AA54", "U+ABF4", "U+FF14",
       "U+104A4", "U+10D34", "U+1106A", "U+110F4", "U+1113A", "U+111D4",
       "U+112F4", "U+11454", "U+114D4", "U+11654", "U+116C4", "U+11734",
       "U+118E4", "U+11954", "U+11C54", "U+11D54", "U+11DA4", "U+16A64",
       "U+16AC4", "U+16B54", "U+1D7D2", "U+1D7DC", "U+1D7E6", "U+1D7F0",
       "U+1D7FA", "U+1E144", "U+1E2F4", "U+1E954", "U+1FBF4"},
      {"5", "U+0665", "U+06F5", "U+07C5", "U+096B", "U+09EB", "U+0A6B",
       "U+0AEB", "U+0B6B", "U+0BEB", "U+0C6B", "U+0CEB", "U+0D6B",
       "U+0DEB", "U+0E55", "U+0ED5", "U+0F25", "U+1045", "U+1095",
       "U+17E5", "U+1815", "U+194B", "U+19D5", "U+1A85", "U+1A95",
       "U+1B55", "U+1BB5", "U+1C45", "U+1C55", "U+A625", "U+A8D5",
       "U+A905", "U+A9D5", "U+A9F5", "U+AA55", "U+ABF5", "U+FF15",
       "U+104A5", "U+10D35", "U+1106B", "U+110F5", "U+1113B", "U+111D5",
       "U+112F5", "U+11455", "U+114D5", "U+11655", "U+116C5", "U+11735",
       "U+118E5", "U+11955", "U+11C55", "U+11D55", "U+11DA5", "U+16A65",
       "U+16AC5", "U+16B55", "U+1D7D3", "U+1D7DD", "U+1D7E7", "U+1D7F1",
       "U+1D7FB", "U+1E145", "U+1E2F5", "U+1E955", "U+1FBF5"},
      {"6", "U+0666", "U+06F6", "U+07C6", "U+096C", "U+09EC", "U+0A6C",
       "U+0AEC", "U+0B6C", "U+0BEC", "U+0C6C", "U+0CEC", "U+0D6C",
       "U+0DEC", "U+0E56", "U+0ED6", "U+0F26", "U+1046", "U+1096",
       "U+17E6", "U+1816", "U+194C", "U+19D6", "U+1A86", "U+1A96",
       "U+1B56", "U+1BB6", "U+1C46", "U+1C56", "U+A626", "U+A8D6",
       "U+A906", "U+A9D6", "U+A9F6", "U+AA56", "U+ABF6", "U+FF16",
       "U+104A6", "U+10D36", "U+1106C", "U+110F6", "U+1113C", "U+111D6",
       "U+112F6", "U+11456", "U+114D6", "U+11656", "U+116C6", "U+11736",
       "U+118E6", "U+11956", "U+11C56", "U+11D56", "U+11DA6", "U+16A66",
       "U+16AC6", "U+16B56", "U+1D7D4", "U+1D7DE", "U+1D7E8", "U+1D7F2",
       "U+1D7FC", "U+1E146", "U+1E2F6", "U+1E956", "U+1FBF6"},
      {"7", "U+0667", "U+06F7", "U+07C7", "U+096D", "U+09ED", "U+0A6D",
       "U+0AED", "U+0B6D", "U+0BED", "U+0C6D", "U+0CED", "U+0D6D",
       "U+0DED", "U+0E57", "U+0ED7", "U+0F27", "U+1047", "U+1097",
       "U+17E7", "U+1817", "U+194D", "U+19D7", "U+1A87", "U+1A97",
       "U+1B57", "U+1BB7", "U+1C47", "U+1C57", "U+A627", "U+A8D7",
       "U+A907", "U+A9D7", "U+A9F7", "U+AA57", "U+ABF7", "U+FF17",
       "U+104A7", "U+10D37", "U+1106D", "U+110F7", "U+1113D", "U+111D7",
       "U+112F7", "U+11457", "U+114D7", "U+11657", "U+116C7", "U+11737",
       "U+118E7", "U+11957", "U+11C57", "U+11D57", "U+11DA7", "U+16A67",
       "U+16AC7", "U+16B57", "U+1D7D5", "U+1D7DF", "U+1D7E9", "U+1D7F3",
       "U+1D7FD", "U+1E147", "U+1E2F7", "U+1E957", "U+1FBF7"},
      {"8", "U+0668", "U+06F8", "U+07C8", "U+096E", "U+09EE", "U+0A6E",
       "U+0AEE", "U+0B6E", "U+0BEE", "U+0C6E", "U+0CEE", "U+0D6E",
       "U+0DEE", "U+0E58", "U+0ED8", "U+0F28", "U+1048", "U+1098",
       "U+17E8", "U+1818", "U+194E", "U+19D8", "U+1A88", "U+1A98",
       "U+1B58", "U+1BB8", "U+1C48", "U+1C58", "U+A628", "U+A8D8",
       "U+A908", "U+A9D8", "U+A9F8", "U+AA58", "U+ABF8", "U+FF18",
       "U+104A8", "U+10D38", "U+1106E", "U+110F8", "U+1113E", "U+111D8",
       "U+112F8", "U+11458", "U+114D8", "U+11658", "U+116C8", "U+11738",
       "U+118E8", "U+11958", "U+11C58", "U+11D58", "U+11DA8", "U+16A68",
       "U+16AC8", "U+16B58", "U+1D7D6", "U+1D7E0", "U+1D7EA", "U+1D7F4",
       "U+1D7FE", "U+1E148", "U+1E2F8", "U+1E958", "U+1FBF8"},
      {"9", "U+0669", "U+06F9", "U+07C9", "U+096F", "U+09EF", "U+0A6F",
       "U+0AEF", "U+0B6F", "U+0BEF", "U+0C6F", "U+0CEF", "U+0D6F",
       "U+0DEF", "U+0E59", "U+0ED9", "U+0F29", "U+1049", "U+1099",
       "U+17E9", "U+1819", "U+194F", "U+19D9", "U+1A89", "U+1A99",
       "U+1B59", "U+1BB9", "U+1C49", "U+1C59", "U+A629", "U+A8D9",
       "U+A909", "U+A9D9", "U+A9F9", "U+AA59", "U+ABF9", "U+FF19",
       "U+104A9", "U+10D39", "U+1106F", "U+110F9", "U+1113F", "U+111D9",
       "U+112F9", "U+11459", "U+114D9", "U+11659", "U+116C9", "U+11739",
       "U+118E9", "U+11959", "U+11C59", "U+11D59", "U+11DA9", "U+16A69",
       "U+16AC9", "U+16B59", "U+1D7D7", "U+1D7E1", "U+1D7EB", "U+1D7F5",
       "U+1D7FF", "U+1E149", "U+1E2F9", "U+1E959", "U+1FBF9"}
    >>
Digits == UNION {DecimalDigits[i] : i \in 1..10}
\* [0-9]
AsciiDigits == {DigitChars[i] : i \in 1..10}
DigitVal(c) == (CHOOSE i \in 1..10 : c \in DecimalDigits[i]) - 1

\* The characters below 127.
Ascii ==
    {"U+0000", "U+0001", "U+0002", "U+0003", "U+0004", "U+0005", "U+0006",
     "U+0007", "U+0008", "\t", "\n", "U+000B", "\f", "\r", "U+000E",
     "U+000F", "U+0010", "U+0011", "U+0012", "U+0013", "U+0014", "U+0015",
     "U+0016", "U+0017", "U+0018", "U+0019", "U+001A", "U+001B", "U+001C",
     "U+001D", "U+001E", "U+001F", " ", "!", "\"", "#", "$", "%", "&", "'",
     "(", ")", "*", "+", ",", "-", ".", "/", "0", "1", "2", "3", "4", "5",
     "6", "7", "8", "9", ":", ";", "<", "=", ">", "?", "@", "A", "B", "C",
     "D", "E", "F", "G", "H", "I", "J", "K", "L", "M", "N", "O", "P", "Q",
     "R", "S", "T", "U", "V", "W", "X", "Y", "Z", "[", "\\", "]", "^", "_",
     "U+0060", "a", "b", "c", "d", "e", "f", "g", "h", "i", "j", "k", "l", "m",
     "n", "o", "p", "q", "r", "s", "t", "u", "v", "w", "x", "y", "z", "{",
     "|", "}", "~"}

\* Py_ISSPACE: the whitespace float skips at either end of the ASCII text.
AsciiSpace == {" ", "\t", "\n", "U+000B", "\f", "\r"}

\* _PyUnicode_TransformDecimalAndSpaceToASCII: whitespace above ASCII
\* becomes a space and a decimal digit its ASCII digit; the text ends with
\* "?" at the first other character above ASCII.
TransformDecimalAndSpaceToASCII(s) ==
    LET bad == {i \in 1..Len(s) :
                   s[i] \notin Ascii /\ s[i] \notin Whitespace
                       /\ s[i] \notin Digits}
        n   == IF bad = {} THEN Len(s)
               ELSE CHOOSE i \in bad : \A j \in bad : i <= j
    IN  [i \in 1..n |->
            IF s[i] \in Ascii THEN s[i]
            ELSE IF s[i] \in Whitespace THEN " "
            ELSE IF s[i] \in Digits THEN DigitChars[DigitVal(s[i]) + 1]
            ELSE "?"]

lower(s) ==
    [i \in 1..Len(s) |->
        CASE s[i] = "I" -> "i" [] s[i] = "N" -> "n" [] s[i] = "F" -> "f"
          [] s[i] = "T" -> "t" [] s[i] = "Y" -> "y" [] s[i] = "A" -> "a"
          [] s[i] = "E" -> "e" [] OTHER -> s[i]]

\* digitpart ::= digit (["_"] digit)*
IsDigitPart(s) ==
    /\ s # <<>>
    /\ \A i \in 1..Len(s) : s[i] \in Digits \/ s[i] = "_"
    /\ s[1] # "_" /\ s[Len(s)] # "_"
    /\ \A i \in 1..(Len(s) - 1) : ~(s[i] = "_" /\ s[i + 1] = "_")

DigitsOf(s) == SelectSeq(s, LAMBDA c : c # "_")

\* int(ds) for the digits of a date field.
RECURSIVE NatOf(_)
NatOf(ds) ==
    IF ds = <<>> THEN 0
    ELSE 10 * NatOf(SubSeq(ds, 1, Len(ds) - 1)) + DigitVal(ds[Len(ds)])

\* min(int(ds), cap), for the digits of a decimal exponent.
RECURSIVE ExponentOf(_, _, _)
ExponentOf(ds, acc, cap) ==
    IF ds = <<>> THEN acc
    ELSE LET n == 10 * acc + DigitVal(Head(ds))
         IN  ExponentOf(Tail(ds), IF n > cap THEN cap ELSE n, cap)

(***************************************************************************)
(* Natural numbers of any size: the limbs of the number in base 10000,     *)
(* least significant first, the last limb not 0 (zero has no limbs).       *)
(***************************************************************************)
Base == 10 ^ 4

Trim(b) ==
    LET nz == {i \in 1..Len(b) : b[i] # 0}
    IN  IF nz = {} THEN <<>>
        ELSE SubSeq(b, 1, CHOOSE i \in nz : \A j \in nz : j <= i)

\* The number a sequence of ASCII digits writes.
BigOf(ds) ==
    LET n == Len(ds)
        D(j) == IF j < 1 THEN 0 ELSE DigitVal(ds[j])
    IN  Trim([i \in 1..((n + 3) \div 4) |->
                 D(n - 4 * i + 1) * 1000 + D(n - 4 * i + 2) * 100
                    + D(n - 4 * i + 3) * 10 + D(n - 4 * i + 4)])

\* The digits of b, none for zero.
DecimalOf(b) ==
    LET all == [j \in 1..(4 * Len(b)) |->
                   LET limb == b[Len(b) - ((j - 1) \div 4)]
                       unit == <<1000, 100, 10, 1>>[((j - 1) % 4) + 1]
                   IN  DigitChars[((limb \div unit) % 10) + 1]]
        nz  == {j \in 1..Len(all) : all[j] # "0"}
    IN  IF nz = {} THEN <<>>
        ELSE SubSeq(all, CHOOSE j \in nz : \A i \in nz : j <= i, Len(all))

\* The limbs lo..hi of b * m + c and the carry out of them, for m and c
\* below 200000.
RECURSIVE MulRange(_, _, _, _, _)
MulRange(b, lo, hi, m, c) ==
    IF lo = hi
    THEN LET t == b[lo] * m + c
         IN  [limbs |-> <<t % Base>>, carry |-> t \div Base]
    ELSE LET mid  == (lo + hi) \div 2
             low  == MulRange(b, lo, mid, m, c)
             high == MulRange(b, mid + 1, hi, m, low.carry)
         IN  [limbs |-> low.limbs \o high.limbs, carry |-> high.carry]

\* b * m + c, for m and c below 200000.
MulAdd(b, m, c) ==
    LET x == IF b = <<>> THEN [limbs |-> <<>>, carry |-> c]
             ELSE MulRange(b, 1, Len(b), m, c)
    IN  x.limbs \o Trim(<<x.carry % Base, x.carry \div Base>>)

\* b * 2^n and b * 5^n.
RECURSIVE Times2(_, _)
Times2(b, n) ==
    IF n = 0 THEN b
    ELSE IF n <= 13 THEN MulAdd(b, 2 ^ n, 0)
    ELSE LET h == Times2(b, n \div 2)
         IN  IF h = <<>> THEN <<>> ELSE Times2(h, n - (n \div 2))
RECURSIVE Times5(_, _)
Times5(b, n) ==
    IF n = 0 THEN b
    ELSE IF n <= 6 THEN MulAdd(b, 5 ^ n, 0)
    ELSE LET h == Times5(b, n \div 2)
         IN  IF h = <<>> THEN <<>> ELSE Times5(h, n - (n \div 2))

\* A quotient x is [q |-> its whole part, st |-> whether it has a
\* fraction].  floor(x / 10^n): whole limbs are cut and the rest moves
\* down by n % 4 digits.
Over10(x, n) ==
    LET cut  == IF n \div 4 > Len(x.q) THEN Len(x.q) ELSE n \div 4
        hi   == SubSeq(x.q, cut + 1, Len(x.q))
        unit == 10 ^ (n % 4)
    IN  [q  |-> Trim([i \in 1..Len(hi) |->
                        (hi[i] \div unit)
                           + (IF i < Len(hi)
                              THEN (hi[i + 1] % unit) * (Base \div unit)
                              ELSE 0)]),
         st |-> \/ x.st
                \/ hi # <<>> /\ hi[1] % unit # 0
                \/ \E i \in 1..cut : x.q[i] # 0]

\* floor(x / 2^n) = floor(x * 5^n / 10^n)
Over2(x, n) == Over10([q |-> Times5(x.q, n), st |-> x.st], n)

\* floor(x * 2^s)
Scale2(x, s) ==
    IF s >= 0 THEN [q |-> Times2(x.q, s), st |-> x.st] ELSE Over2(x, 0 - s)

BigGeq(a, b) ==
    IF Len(a) # Len(b) THEN Len(a) > Len(b)
    ELSE LET diff == {i \in 1..Len(a) : a[i] # b[i]}
         IN  \/ diff = {}
             \/ LET i == CHOOSE i \in diff : \A j \in diff : j <= i
                IN  a[i] > b[i]

\* 2^53
Two53 == <<992, 5474, 1992, 9007>>

FloatErr == [cls |-> "ValueError"]
FloatNan == [cls |-> "nan"]
FloatInf(neg) == [cls |-> "inf", neg |-> neg]
FloatZero(neg) == [cls |-> "finite", neg |-> neg, digits |-> <<>>, exp |-> 0]

\* The number of times q is halved to be below 2^53, need times at least.
Fits(q, h) == ~BigGeq(Over2([q |-> q, st |-> FALSE], h).q, Two53)
Halvings(q, need) ==
    CHOOSE h \in need..(need + 14 * Len(q) + 1) :
        Fits(q, h) /\ (h = need \/ ~Fits(q, h - 1))

\* x halved once more: r is the bit dropped and st tells whether anything
\* was dropped before it.
LastBit(x, e) ==
    [q |-> Over2(x, 1).q,
     r |-> IF x.q # <<>> /\ x.q[1] % 2 = 1 THEN 1 ELSE 0,
     st |-> x.st, e |-> e]

Halved(x, h, e) ==
    IF h = 0 THEN [q |-> x.q, r |-> 0, st |-> x.st, e |-> e]
    ELSE LastBit(Over2(x, h - 1), e + h)

\* The significand: x * 2^e is halved until its whole part is below 2^53
\* and e is at least -1074 (gradual underflow).
Significand(x, e) ==
    Halved(x, Halvings(x.q, IF e < -1074 THEN -1074 - e ELSE 0), e)

\* The float of value 0.ds * 10^(Len(ds) + shift), ds with no leading 0.
Canonical(neg, ds, shift) ==
    [cls |-> "finite", neg |-> neg, digits |-> rstrip(ds, {"0"}),
     exp |-> Len(ds) + shift]

\* The double m * 2^e, m being at most 2^53, in decimal.
DoubleOf(neg, m, e) ==
    IF m = <<>> THEN FloatZero(neg)
    ELSE IF e > 971 \/ (e = 971 /\ BigGeq(m, Two53)) THEN FloatInf(neg)
    ELSE IF e >= 0 THEN Canonical(neg, DecimalOf(Times2(m, e)), 0)
    ELSE Canonical(neg, DecimalOf(Times5(m, 0 - e)), e)

\* x rounded to the nearest significand, ties to even.
Rounded(neg, x) ==
    IF x.r = 1 /\ (x.st \/ (x.q # <<>> /\ x.q[1] % 2 = 1))
    THEN DoubleOf(neg, MulAdd(x.q, 1, 1), x.e)
    ELSE DoubleOf(neg, x.q, x.e)

\* The whole number d * 10^k, or d for a negative k.
Padded(d, k) == BigOf(d \o [i \in 1..(IF k > 0 THEN k ELSE 0) |-> "0"])

\* The binary digits taken after the point of 0.d * 10^e for its
\* quotient by 2^-s to have at least 54 bits.
Bits(e) == 55 - (((e - 1) * (IF e >= 1 THEN 3321 ELSE 3322)) \div 1000)

\* The double nearest to 0.d * 10^e, d with no 0 at either end: the
\* quotient of the decimal by 2^-Bits(e) is rounded to the significand.
Nearest(neg, d, e) ==
    IF d = <<>> THEN FloatZero(neg)
    \* a whole number below 2^53 is a double
    ELSE IF Len(d) <= e /\ e <= 16 /\ ~BigGeq(Padded(d, e - Len(d)), Two53)
    THEN [cls |-> "finite", neg |-> neg, digits |-> d, exp |-> e]
    ELSE IF e > 310 THEN FloatInf(neg)
    ELSE IF e < -330 THEN FloatZero(neg)
    ELSE Rounded(neg,
             Significand(
                 Over10(Scale2([q |-> Padded(d, e - Len(d)), st |-> FALSE],
                               Bits(e)),
                        IF e < Len(d) THEN Len(d) - e ELSE 0),
                 0 - Bits(e)))

\* The double nearest to the decimal (-1)^neg * 0.ds * 10^point.
FloatOf(neg, ds, point) ==
    LET lead == lstrip(ds, {"0"})
    IN  Nearest(neg, rstrip(lead, {"0"}), point - (Len(ds) - Len(lead)))

\* floatnumber ::= digitpart ["." [digitpart]] [exponent] | "." digitpart [exponent]
\* An exponent beyond the length of the text by 400 or more decides the
\* result whatever its size.
ParseDecimal(neg, body) ==
    LET l    == lower(body)
        ei   == find(l, "e")
        mant == IF ei = 0 THEN body ELSE SubSeq(body, 1, ei - 1)
        expo == IF ei = 0 THEN <<>> ELSE SubSeq(body, ei + 1, Len(body))
        esgn == expo # <<>> /\ Head(expo) \in {"+", "-"}
        edig == IF esgn THEN Tail(expo) ELSE expo
        eOk  == ei = 0 \/ IsDigitPart(edig)
        enz  == lstrip(DigitsOf(edig), {"0"})
        eAbs == IF Len(enz) > 9 THEN Len(body) + 400
                ELSE ExponentOf(enz, 0, Len(body) + 400)
        eVal == IF ei = 0 \/ ~eOk THEN 0
                ELSE IF esgn /\ Head(expo) = "-" THEN 0 - eAbs
                ELSE eAbs
        di   == find(mant, ".")
        ip   == IF di = 0 THEN mant ELSE SubSeq(mant, 1, di - 1)
        fp   == IF di = 0 THEN <<>> ELSE SubSeq(mant, di + 1, Len(mant))
        mOk  == IF di = 0 THEN IsDigitPart(ip)
                ELSE /\ ip = <<>> \/ IsDigitPart(ip)
                     /\ fp = <<>> \/ IsDigitPart(fp)
                     /\ ip # <<>> \/ fp # <<>>
    IN  IF mOk /\ eOk
        THEN FloatOf(neg, DigitsOf(ip) \o DigitsOf(fp), Len(DigitsOf(ip)) + eVal)
        ELSE FloatErr

\* float(s) for a str s: the float, or FloatErr where Python raises ValueError.
float(s) ==
    LET t    == strip(TransformDecimalAndSpaceToASCII(s), AsciiSpace)
        sgn  == t # <<>> /\ Head(t) \in {"+", "-"}
        neg  == sgn /\ Head(t) = "-"
        body == IF sgn THEN Tail(t) ELSE t
        word == lower(body)
    IN  IF word = <<"i", "n", "f">>
           \/ word = <<"i", "n", "f", "i", "n", "i", "t", "y">>
        THEN FloatInf(neg)
        ELSE IF word = <<"n", "a", "n">> THEN FloatNan
        ELSE ParseDecimal(neg, body)

\* n + 1 for a numeral n of a natural number.
RECURSIVE Successor(_)
Successor(n) ==
    IF n = <<>> THEN <<"1">>
    ELSE IF n[Len(n)] = "9" THEN Successor(SubSeq(n, 1, Len(n) - 1)) \o <<"0">>
    ELSE SubSeq(n, 1, Len(n) - 1) \o <<DigitChars[DigitVal(n[Len(n)]) + 2]>>

\* int(f) for a finite float f: truncation toward zero, as a numeral.
int(f) ==
    IF f.exp <= 0 THEN <<"0">>
    ELSE LET n == [i \in 1..f.exp |->
                      IF i <= Len(f.digits) THEN f.digits[i] ELSE "0"]
         IN  IF f.neg THEN <<"-">> \o n ELSE n

\* n <= 0 for an int numeral n.
IsNonPositive(n) == Head(n) = "-" \/ n = <<"0">>

(***************************************************************************)
(* datetime.strptime(s, fmt).date() and date.strftime("%Y-%m-%d")          *)
(*                                                                         *)
(* strptime matches the regular expression of the format at the start of   *)
(* s and raises ValueError when text remains; as no directive of the two   *)
(* formats can match "/", this is a match of the three "/"-separated       *)
(* fields of s against the three directives.                               *)
(***************************************************************************)
\* %m: 1[0-2]|0[1-9]|[1-9]
MatchMonth(p) ==
    \/ Len(p) = 2 /\ p[1] = "1" /\ p[2] \in {"0", "1", "2"}
    \/ Len(p) = 2 /\ p[1] = "0" /\ p[2] \in AsciiDigits \ {"0"}
    \/ Len(p) = 1 /\ p[1] \in AsciiDigits \ {"0"}

\* %d: 3[0-1]|[1-2]\d|0[1-9]|[1-9]| [1-9]
MatchDay(p) ==
    \/ Len(p) = 2 /\ p[1] = "3" /\ p[2] \in {"0", "1"}
    \/ Len(p) = 2 /\ p[1] \in {"1", "2"} /\ p[2] \in Digits
    \/ Len(p) = 2 /\ p[1] \in {"0", " "} /\ p[2] \in AsciiDigits \ {"0"}
    \/ Len(p) = 1 /\ p[1] \in AsciiDigits \ {"0"}

\* %y: \d\d and %Y: \d\d\d\d
MatchYear(p, fmt) ==
    /\ Len(p) = (IF fmt = "%m/%d/%y" THEN 2 ELSE 4)
    /\ \A i \in 1..Len(p) : p[i] \in Digits

\* A mutation of YearOf: the two-digit pivot moved from 69 to 50.
YearOfPivot50(p, fmt) ==
    LET n == NatOf(p)
    IN  IF fmt = "%m/%d/%y" THEN (IF n <= 49 THEN 2000 + n ELSE 1900 + n)
        ELSE n

\* %y follows POSIX: 69-99 are 1969-1999 and 00-68 are 2000-2068.
YearOf(p, fmt) ==
    LET n == NatOf(p)
    IN  IF fmt = "%m/%d/%y" THEN (IF n <= 68 THEN 2000 + n ELSE 1900 + n)
        ELSE n

IsLeap(y) == (y % 4 = 0 /\ y % 100 # 0) \/ y % 400 = 0

DaysInMonth(y, m) ==
    IF m = 2 THEN (IF IsLeap(y) THEN 29 ELSE 28)
    ELSE IF m \in {4, 6, 9, 11} THEN 30 ELSE 31

DateErr == [cls |-> "ValueError"]

strptime(s, fmt) ==
    LET f == split(s, "/")
    IN  IF /\ Len(f) = 3
           /\ MatchMonth(f[1]) /\ MatchDay(f[2]) /\ MatchYear(f[3], fmt)
        THEN LET y == YearOf(f[3], fmt)
                 m == NatOf(f[1])
                 d == NatOf(lstrip(f[2], {" "}))
             IN  IF y >= 1 /\ d <= DaysInMonth(y, m)
                 THEN [cls |-> "date", year |-> y, month |-> m, day |-> d]
                 ELSE DateErr
        ELSE DateErr

tried_formats == <<"%m/%d/%y", "%m/%d/%Y">>

\* The loop over tried_formats: the first format that parses wins.
RECURSIVE ParseDate(_, _)
ParseDate(s, fmts) ==
    IF fmts = <<>> THEN DateErr
    ELSE LET d == strptime(s, Head(fmts))
         IN  IF d.cls = "date" THEN d ELSE ParseDate(s, Tail(fmts))

\* str(n) for a natural number n.
RECURSIVE NumeralOf(_)
NumeralOf(n) ==
    IF n < 10 THEN <<DigitChars[n + 1]>>
    ELSE NumeralOf(n \div 10) \o <<DigitChars[(n % 10) + 1]>>

TwoDigits(n) == <<DigitChars[(n \div 10) + 1], DigitChars[(n % 10) + 1]>>

\* strftime("%Y-%m-%d"); the C library does not pad %Y.
strftime(d) ==
    NumeralOf(d.year) \o <<"-">> \o TwoDigits(d.month) \o <<"-">>
        \o TwoDigits(d.day)

(***************************************************************************)
(* The components                                                          *)
(***************************************************************************)
VARIABLES
    tool,       \* the component a run is of
    entry,      \* how it is run: "build" or the tool function around it
    input_str,  \* the input_str attribute of the stock and price tools
    kwargs,     \* the keyword arguments of CreditCheckTool.build
    given,      \* what the caller composed the input from (history only)
    pc,         \* position of the run in build
    parts,      \* the comma-separated segments
    k,          \* loop position in parts
    buyer_part_number, order_quantity, requested_fulfillment_date,
    po_price_str,
    order_quantity_int, requested_date_obj, po_price_float,
    buyername,
    requests,   \* the HTTP requests issued, in order
    result,     \* the dict of the returned Data
    status,     \* self.status
    raised,     \* the exception that left build, "" if none
    output      \* the str returned by the tool function

vars == <<tool, entry, input_str, kwargs, given, pc, parts, k,
          buyer_part_number, order_quantity, requested_fulfillment_date,
          po_price_str, order_quantity_int, requested_date_obj,
          po_price_float, buyername, requests, result, status, raised,
          output>>

caller == <<tool, entry, input_str, kwargs, given>>
slots  == <<buyer_part_number, order_quantity, requested_fulfillment_date,
            po_price_str>>
values == <<order_quantity_int, requested_date_obj, po_price_float>>
outcome == <<result, status, raised, output>>

StockCheckTool == "StockCheckTool"
PriceCheckTool == "PriceCheckTool"
CreditCheckTool == "CreditCheckTool"

\* Field names, as str.
K_buyer_part_number ==
    <<"b", "u", "y", "e", "r", "_", "p", "a", "r", "t", "_",
      "n", "u", "m", "b", "e", "r">>
K_order_quantity ==
    <<"o", "r", "d", "e", "r", "_", "q", "u", "a", "n", "t", "i", "t", "y">>
K_requested_fulfillment_date ==
    <<"r", "e", "q", "u", "e", "s", "t", "e", "d", "_",
      "f", "u", "l", "f", "i", "l", "l", "m", "e", "n", "t", "_",
      "d", "a", "t", "e">>
K_po_price == <<"p", "o", "_", "p", "r", "i", "c", "e">>

\* The dict of a Data not yet returned.
NoResult == [x \in {} |-> None]
NoValue == [cls |-> "None"]

\* Error texts (fragment sequences).
StockSegmentCountError ==
    <<"Expected exactly 3 comma-separated segments. Format: buyer_part_number=\"...\", order_quantity=\"...\", requested_fulfillment_date=\"...\"">>
PriceSegmentCountError ==
    <<"Expected exactly 2 comma-separated segments. Format: buyer_part_number=\"...\", po_price=\"...\"">>
CouldNotParseError(part) == <<"Could not parse segment: ">> \o part
UnrecognizedKeyError(key_, part) ==
    <<"Unrecognized key '">> \o key_ \o <<"' in segment: ">> \o part
PartNumberError == <<"'buyer_part_number' must be a non-empty string.">>
QuantityPositiveError == <<"'order_quantity' must be a positive integer.">>
QuantityIntegerError ==
    <<"'order_quantity' must be a valid integer (e.g., '32100', '32100.000').">>
DateFormatError ==
    <<"'requested_fulfillment_date' must be in 'MM/DD/YY' or 'MM/DD/YYYY' format (e.g., '5/1/25' or '5/1/2025').">>
PriceNumberError == <<"'po_price' must be a valid number (e.g., '125.50').">>
BuyerNameError == <<"No valid buyer name provided">>

\* result = {"error": msg}; self.status = result["error"]; return Data(...)
ReturnError(msg) ==
    /\ result' = [error |-> msg]
    /\ status' = msg
    /\ pc' = "done"
    /\ UNCHANGED <<raised, output>>

\* An exception no handler of build catches.
Raise(exc) ==
    /\ raised' = exc
    /\ pc' = "raised"
    /\ UNCHANGED <<result, status, output>>

Continue(next) ==
    /\ pc' = next
    /\ UNCHANGED outcome

\* part.strip().split("=", maxsplit=1)
sub_parts(part) == split1(strip(part, Whitespace), "=")

\* A mutation of key: the key is matched whatever its case.
key_any_case(part) ==
    LET x == strip(split1(strip(part, Whitespace), "=")[1], Whitespace)
    IN  [i \in 1..Len(x) |->
            CASE x[i] = "B" -> "b" [] x[i] = "O" -> "o" [] x[i] = "Q" -> "q"
              [] x[i] = "R" -> "r" [] x[i] = "P" -> "p" [] OTHER -> x[i]]

\* sub_parts[0].strip()
key(part) == strip(sub_parts(part)[1], Whitespace)

\* A mutation of raw_value: one quote at most is removed from each end.
raw_value_one_layer(part) ==
    strip_one(strip(split1(strip(part, Whitespace), "=")[2], Whitespace), {"\""})

\* sub_parts[1].strip().strip('"')
raw_value(part) == strip(strip(sub_parts(part)[2], Whitespace), {"\""})

\* not s or not s.strip(), for s a str or None
IsBlank(s) == s = None \/ strip(s, Whitespace) = <<>>

(***************************************************************************)
(* StockCheckTool.build                                                    *)
(***************************************************************************)
\* Lines 38-50: strip, split on commas, check the segment count.
StockSplit ==
    /\ tool = StockCheckTool /\ pc = "start"
    /\ LET ps == split(strip(input_str, Whitespace), ",")
       IN  /\ parts' = ps
           /\ IF Len(ps) # 3
              THEN ReturnError(StockSegmentCountError)
              ELSE Continue("segments")
    /\ k' = 1
    /\ UNCHANGED <<caller, slots, values, buyername, requests>>

\* Lines 53-72: one iteration of the loop over parts.
StockSegment ==
    /\ tool = StockCheckTool /\ pc = "segments"
    /\ LET part == parts[k]
           advance == /\ k' = k + 1
                      /\ Continue(IF k = Len(parts) THEN "part_number"
                                  ELSE "segments")
       IN  IF Len(sub_parts(part)) # 2
           THEN /\ ReturnError(CouldNotParseError(part))
                /\ UNCHANGED <<k, slots>>
           ELSE IF key(part) = K_buyer_part_number
           THEN /\ buyer_part_number' = raw_value(part)
                /\ UNCHANGED <<order_quantity, requested_fulfillment_date,
                               po_price_str>>
                /\ advance
           ELSE IF key(part) = K_order_quantity
           THEN /\ order_quantity' = raw_value(part)
                /\ UNCHANGED <<buyer_part_number, requested_fulfillment_date,
                               po_price_str>>
                /\ advance
           ELSE IF key(part) = K_requested_fulfillment_date
           THEN /\ requested_fulfillment_date' = raw_value(part)
                /\ UNCHANGED <<buyer_part_number, order_quantity, po_price_str>>
                /\ advance
           ELSE /\ ReturnError(UnrecognizedKeyError(key(part), part))
                /\ UNCHANGED <<k, slots>>
    /\ UNCHANGED <<caller, parts, values, buyername, requests>>

\* Lines 74-78.
StockValidatePartNumber ==
    /\ tool = StockCheckTool /\ pc = "part_number"
    /\ IF IsBlank(buyer_part_number)
       THEN ReturnError(PartNumberError)
       ELSE Continue("quantity")
    /\ UNCHANGED <<caller, parts, k, slots, values, buyername, requests>>

\* Lines 80-91: float(None) raises TypeError and int(inf) OverflowError,
\* neither of which is a ValueError; int(nan) raises ValueError.
StockValidateQuantity ==
    /\ tool = StockCheckTool /\ pc = "quantity"
    /\ IF order_quantity = None
       THEN Raise("TypeError") /\ UNCHANGED order_quantity_int
       ELSE LET quantity_float == float(order_quantity)
            IN  IF quantity_float.cls \in {"ValueError", "nan"}
                THEN /\ ReturnError(QuantityIntegerError)
                     /\ UNCHANGED order_quantity_int
                ELSE IF quantity_float.cls = "inf"
                THEN Raise("OverflowError") /\ UNCHANGED order_quantity_int
                ELSE /\ order_quantity_int' = int(quantity_float)
                     /\ IF IsNonPositive(int(quantity_float))
                        THEN ReturnError(QuantityPositiveError)
                        ELSE Continue("date")
    /\ UNCHANGED <<caller, parts, k, slots, requested_date_obj,
                   po_price_float, buyername, requests>>

\* Lines 93-108: strptime(None, fmt) raises TypeError.
StockValidateDate ==
    /\ tool = StockCheckTool /\ pc = "date"
    /\ IF requested_fulfillment_date = None
       THEN Raise("TypeError") /\ UNCHANGED requested_date_obj
       ELSE LET d == ParseDate(requested_fulfillment_date, tried_formats)
            IN  IF d.cls = "date"
                THEN requested_date_obj' = d /\ Continue("request")
                ELSE /\ ReturnError(DateFormatError)
                     /\ UNCHANGED requested_date_obj
    /\ UNCHANGED <<caller, parts, k, slots, order_quantity_int,
                   po_price_float, buyername, requests>>

\* The name line 47 of checkcredit.py assigns.
ThreeMGlobal == <<"3", "M", " ", "G", "l", "o", "b", "a", "l">>

(***************************************************************************)
(* The remote services.  A response is either a JSON object, with the      *)
(* value of each key the code reads or Absent, or a                        *)
(* requests.exceptions.RequestException e; str(e) is a fragment sequence.  *)
(***************************************************************************)
StockResponses ==
    {[ok |-> TRUE, ItemsInStock |-> i, expected_restock_date |-> r] :
        i \in {True, False, Absent},
        r \in {Absent, None, <<>>, IntValue(<<"0">>),
               <<"2", "0", "2", "5", "-", "0", "3", "-", "0", "1">>}}
PriceResponses ==
    {[ok |-> TRUE, message |-> m] :
        m \in {Absent, None, <<"Price is within tolerance.">>}}
\* "O'Neil Inc", a credit score that is a JSON string, and a company name
\* with U+2066 LEFT-TO-RIGHT ISOLATE, which is not printable, and U+00E9.
CreditResponses ==
    {[ok |-> TRUE, company_name |-> ThreeMGlobal,
      credit_score |-> IntValue(<<"7", "1", "0">>), risk_level |-> <<"L", "o", "w">>],
     [ok |-> TRUE, company_name |-> <<"O", "'", "N", "e", "i", "l", " ", "I", "n", "c">>,
      credit_score |-> <<"7", "1", "0">>, risk_level |-> <<"L", "o", "w">>],
     [ok |-> TRUE, company_name |-> <<"A", "c", "m", "e", "U+2066", "U+00E9">>,
      credit_score |-> IntValue(<<"7", "1", "0">>), risk_level |-> <<"L", "o", "w">>],
     [ok |-> TRUE, company_name |-> ThreeMGlobal,
      credit_score |-> IntValue(<<"7", "1", "0">>), risk_level |-> Absent]}
\* requests.exceptions: the direct bases of each class a request raises.
Bases ==
    [cls \in {"RequestException", "HTTPError", "ConnectionError", "Timeout",
              "ConnectTimeout", "ReadTimeout", "SSLError", "ProxyError"} |->
        IF cls = "RequestException" THEN {}
        ELSE IF cls = "ConnectTimeout" THEN {"ConnectionError", "Timeout"}
        ELSE IF cls = "ReadTimeout" THEN {"Timeout"}
        ELSE IF cls \in {"SSLError", "ProxyError"} THEN {"ConnectionError"}
        ELSE {"RequestException"}]

\* isinstance(e, base) for an exception e of class cls, as an except clause
\* tests it.
RECURSIVE isinstance(_, _)
isinstance(cls, base) ==
    cls = base \/ \E b \in Bases[cls] : isinstance(b, base)

\* The exceptions requests.get and raise_for_status raise, with str(e).
Failures ==
    {[ok |-> FALSE, exc |-> "ConnectionError", text |-> <<"Connection refused">>],
     [ok |-> FALSE, exc |-> "Timeout", text |-> <<"Request timed out">>],
     [ok |-> FALSE, exc |-> "HTTPError", text |-> <<"500 Server Error">>],
     [ok |-> FALSE, exc |-> "ConnectTimeout", text |-> <<"Connection timed out">>],
     [ok |-> FALSE, exc |-> "ReadTimeout", text |-> <<"Read timed out.">>],
     [ok |-> FALSE, exc |-> "SSLError", text |-> <<"certificate verify failed">>],
     [ok |-> FALSE, exc |-> "ProxyError", text |-> <<"Cannot connect to proxy.">>]}

StockUrl == "http://192.168.1.248:5001/check_stock"
PriceUrl == "http://192.168.1.248:5001/check_price"
CreditUrl == "http://192.168.1.248:5002/buyer_credit_check"

\* Lines 110-119: the request, with the validated values as parameters.
StockRequest ==
    /\ tool = StockCheckTool /\ pc = "request"
    /\ requests' = Append(requests,
          [method |-> "POST", url |-> StockUrl,
           params |-> [buyer_part_number |-> strip(buyer_part_number, Whitespace),
                       order_quantity |-> order_quantity_int,
                       requested_fulfillment_date |-> strftime(requested_date_obj)]])
    /\ Continue("response")
    /\ UNCHANGED <<caller, parts, k, slots, values, buyername>>

\* Lines 120-150: the response, or the exception, mapped to the result.
StockResponse ==
    /\ tool = StockCheckTool /\ pc = "response"
    /\ \E data \in StockResponses \cup Failures :
          IF data.ok
          THEN LET restock_info ==
                       IF bool(get(data.expected_restock_date))
                       THEN <<" Expected restock date: ">>
                                \o str(data.expected_restock_date)
                       ELSE <<>>
                   message ==
                       IF bool(get(data.ItemsInStock))
                       THEN <<"Stock is available for ">> \o buyer_part_number
                                \o <<" (Quantity: ">> \o order_quantity_int
                                \o <<").">> \o restock_info
                       ELSE <<"Stock is NOT available for ">> \o buyer_part_number
                                \o <<" (Quantity: ">> \o order_quantity_int
                                \o <<").">> \o restock_info
                                \o <<", please ask_human on how to proceed">>
               IN  /\ result' =
                          [buyer_part_number |-> buyer_part_number,
                           order_quantity |-> order_quantity_int,
                           requested_fulfillment_date |-> strftime(requested_date_obj),
                           message |-> message]
                   /\ status' = message
          ELSE /\ isinstance(data.exc, "RequestException")
               /\ result' = [error |-> <<"Stock check failed: ">> \o data.text]
               /\ status' = <<"Error: ">> \o data.text
    /\ pc' = "done"
    /\ UNCHANGED <<caller, parts, k, slots, values, buyername, requests,
                   raised, output>>

(***************************************************************************)
(* PriceCheckTool.build                                                    *)
(***************************************************************************)
\* Lines 37-47.
PriceSplit ==
    /\ tool = PriceCheckTool /\ pc = "start"
    /\ LET ps == split(strip(input_str, Whitespace), ",")
       IN  /\ parts' = ps
           /\ IF Len(ps) # 2
              THEN ReturnError(PriceSegmentCountError)
              ELSE Continue("segments")
    /\ k' = 1
    /\ UNCHANGED <<caller, slots, values, buyername, requests>>

\* Lines 50-67: one iteration of the loop over parts.
PriceSegment ==
    /\ tool = PriceCheckTool /\ pc = "segments"
    /\ LET part == parts[k]
           advance == /\ k' = k + 1
                      /\ Continue(IF k = Len(parts) THEN "part_number"
                                  ELSE "segments")
       IN  IF Len(sub_parts(part)) # 2
           THEN /\ ReturnError(CouldNotParseError(part))
                /\ UNCHANGED <<k, slots>>
           ELSE IF key(part) = K_buyer_part_number
           THEN /\ buyer_part_number' = raw_value(part)
                /\ UNCHANGED <<order_quantity, requested_fulfillment_date,
                               po_price_str>>
                /\ advance
           ELSE IF key(part) = K_po_price
           THEN /\ po_price_str' = raw_value(part)
                /\ UNCHANGED <<buyer_part_number, order_quantity,
                               requested_fulfillment_date>>
                /\ advance
           ELSE /\ ReturnError(UnrecognizedKeyError(key(part), part))
                /\ UNCHANGED <<k, slots>>
    /\ UNCHANGED <<caller, parts, values, buyername, requests>>

\* Lines 69-73.
PriceValidatePartNumber ==
    /\ tool = PriceCheckTool /\ pc = "part_number"
    /\ IF IsBlank(buyer_part_number)
       THEN ReturnError(PartNumberError)
       ELSE Continue("price")
    /\ UNCHANGED <<caller, parts, k, slots, values, buyername, requests>>

\* Lines 75-81: float(None) raises TypeError; inf and nan are floats.
PriceValidatePrice ==
    /\ tool = PriceCheckTool /\ pc = "price"
    /\ IF po_price_str = None
       THEN Raise("TypeError") /\ UNCHANGED po_price_float
       ELSE IF float(po_price_str).cls = "ValueError"
       THEN ReturnError(PriceNumberError) /\ UNCHANGED po_price_float
       ELSE po_price_float' = float(po_price_str) /\ Continue("request")
    /\ UNCHANGED <<caller, parts, k, slots, order_quantity_int,
                   requested_date_obj, buyername, requests>>

\* Lines 84-91.
PriceRequest ==
    /\ tool = PriceCheckTool /\ pc = "request"
    /\ requests' = Append(requests,
          [method |-> "POST", url |-> PriceUrl,
           params |-> [buyer_part_number |-> strip(buyer_part_number, Whitespace),
                       po_price |-> po_price_float]])
    /\ Continue("response")
    /\ UNCHANGED <<caller, parts, k, slots, values, buyername>>

\* Lines 92-106.
PriceResponse ==
    /\ tool = PriceCheckTool /\ pc = "response"
    /\ \E data \in PriceResponses \cup Failures :
          IF data.ok
          THEN LET message ==
                       get_default(data.message,
                           <<"No message returned from /check_price endpoint.">>)
               IN  /\ result' = [buyer_part_number |-> buyer_part_number,
                                 po_price |-> po_price_float,
                                 message |-> message]
                   /\ status' = <<"Price check for ">> \o buyer_part_number
                                    \o <<": ">> \o str(message)
          ELSE /\ isinstance(data.exc, "RequestException")
               /\ result' = [error |-> <<"Price check failed: ">> \o data.text]
               /\ status' = <<"Error: ">> \o data.text
    /\ pc' = "done"
    /\ UNCHANGED <<caller, parts, k, slots, values, buyername, requests,
                   raised, output>>

(***************************************************************************)
(* CreditCheckTool.build                                                   *)
(*                                                                         *)
(* kwargs is {"buyername": name} (kind "direct"), {other: {"buyername":    *)
(* name}} (kind "nested", the dictionary fallback) or {} (kind "empty").   *)
(***************************************************************************)

\* Lines 39-51.
CreditExtract ==
    /\ tool = CreditCheckTool /\ pc = "start"
    /\ LET direct   == IF kwargs.kind = "direct" THEN kwargs.buyername ELSE <<>>
           fallback == IF direct = <<>> /\ kwargs.kind = "nested"
                       THEN kwargs.buyername ELSE direct
           stripped == strip(fallback, Whitespace)
           \* line 47 assigns "3M Global" over the stripped name of line 46
           name     == ThreeMGlobal
       IN  /\ buyername' = name
           /\ IF name = <<>>
              THEN /\ result' = [error |-> BuyerNameError]
                   /\ status' = <<"Error: No valid buyer name provided">>
                   /\ pc' = "done"
                   /\ UNCHANGED <<raised, output>>
              ELSE Continue("request")
    /\ UNCHANGED <<caller, parts, k, slots, values, requests>>

\* Lines 53-57.
CreditRequest ==
    /\ tool = CreditCheckTool /\ pc = "request"
    /\ requests' = Append(requests,
          [method |-> "GET", url |-> CreditUrl,
           params |-> [buyername |-> buyername]])
    /\ Continue("response")
    /\ UNCHANGED <<caller, parts, k, slots, values, buyername>>

\* Lines 58-85: credit_data[key] raises KeyError for a key the reply does
\* not hold, which is no RequestException; an exception of the request
\* takes the first except clause whose class it is an instance of.
CreditResponse ==
    /\ tool = CreditCheckTool /\ pc = "response"
    /\ \E data \in CreditResponses \cup Failures :
          IF data.ok /\ Absent \in {data.company_name, data.credit_score,
                                    data.risk_level}
          THEN Raise("KeyError")
          ELSE /\ IF data.ok
                  THEN /\ result' = [buyername |-> buyername,
                                     company |-> data.company_name,
                                     credit_score |-> data.credit_score,
                                     risk_level |-> data.risk_level]
                       /\ status' = <<"Credit check result for ">> \o buyername
                             \o <<":\nCompany: ">> \o str(data.company_name)
                             \o <<"\nCredit Score: ">> \o str(data.credit_score)
                             \o <<"\nRisk Level: ">> \o str(data.risk_level)
                  ELSE IF isinstance(data.exc, "ConnectionError")
                  THEN /\ result' = [error |-> <<"Failed to connect to credit check service: Connection refused">>]
                       /\ status' = <<"Error: Could not connect to credit check service">>
                  ELSE IF isinstance(data.exc, "Timeout")
                  THEN /\ result' = [error |-> <<"Credit check service timed out">>]
                       /\ status' = <<"Error: Credit check service timed out">>
                  ELSE /\ isinstance(data.exc, "RequestException")
                       /\ result' = [error |-> <<"Credit check failed: ">> \o data.text]
                       /\ status' = <<"Error: ">> \o data.text
               /\ pc' = "done"
               /\ UNCHANGED <<raised, output>>
    /\ UNCHANGED <<caller, parts, k, slots, values, buyername, requests>>

(***************************************************************************)
(* The tool functions around build                                         *)
(***************************************************************************)
\* process_input without the inner get: an error record gives the fallback.
process_input_message_only(data) ==
    IF "message" \in DOMAIN data THEN data.message
    ELSE <<"No result">>

\* result.data.get("message", result.data.get("error", "No result"))
process_input(data) ==
    IF "message" \in DOMAIN data THEN data.message
    ELSE IF "error" \in DOMAIN data THEN data.error
    ELSE <<"No result">>

\* inventorycheck.py lines 152-163: process_input / check_stock_service.
StockProcessInput ==
    /\ tool = StockCheckTool /\ entry = "tool" /\ pc = "done"
    /\ output' = process_input(result)
    /\ pc' = "returned"
    /\ UNCHANGED <<caller, parts, k, slots, values, buyername, requests,
                   result, status, raised>>

\* pricecheck.py lines 108-118: process_input / price_check_service.
PriceProcessInput ==
    /\ tool = PriceCheckTool /\ entry = "tool" /\ pc = "done"
    /\ output' = process_input(result)
    /\ pc' = "returned"
    /\ UNCHANGED <<caller, parts, k, slots, values, buyername, requests,
                   result, status, raised>>

\* checkcredit.py lines 88-95: result.data.get("error", str(result.data))
credit_check_service ==
    /\ tool = CreditCheckTool /\ entry = "tool" /\ pc = "done"
    /\ output' =
          IF "error" \in DOMAIN result THEN result.error
          ELSE <<"{'buyername': ">> \o repr(result.buyername)
                 \o <<", 'company': ">> \o repr(result.company)
                 \o <<", 'credit_score': ">> \o repr(result.credit_score)
                 \o <<", 'risk_level': ">> \o repr(result.risk_level)
                 \o <<"}">>
    /\ pc' = "returned"
    /\ UNCHANGED <<caller, parts, k, slots, values, buyername, requests,
                   result, status, raised>>

(***************************************************************************)
(* The inputs a run starts from                                            *)
(***************************************************************************)
MaxSegments == 3
MaxValueLen == 3

\* key="value"
Assign(key_, value) == key_ \o <<"=", "\"">> \o value \o <<"\"">>
\* The documented shape of an input: segments separated by ", ".
Compose(segs) == join(segs, <<",", " ">>)

Perms(n) == {f \in [1..n -> 1..n] : \A i, j \in 1..n : f[i] = f[j] => i = j}
Permuted(segs, f) == [i \in 1..Len(segs) |-> segs[f[i]]]

\* All the sequences over S of length at most n.
RECURSIVE SeqsUpTo(_, _)
SeqsUpTo(S, n) ==
    IF n = 0 THEN {<<>>}
    ELSE LET shorter == SeqsUpTo(S, n - 1)
         IN  shorter \cup {Append(x, c) : x \in shorter, c \in S}

\* Segments, well-formed or not, of which the "segments" inputs are made.
SegmentPool ==
    {\* buyer_part_number="A1"
     <<"b", "u", "y", "e", "r", "_", "p", "a", "r", "t", "_", "n", "u",
       "m", "b", "e", "r", "=", "\"", "A", "1", "\"">>,
     \* buyer_part_number=""
     <<"b", "u", "y", "e", "r", "_", "p", "a", "r", "t", "_", "n", "u",
       "m", "b", "e", "r", "=", "\"", "\"">>,
     \* order_quantity="2"
     <<"o", "r", "d", "e", "r", "_", "q", "u", "a", "n", "t", "i", "t",
       "y", "=", "\"", "2", "\"">>,
     \* order_quantity="0"
     <<"o", "r", "d", "e", "r", "_", "q", "u", "a", "n", "t", "i", "t",
       "y", "=", "\"", "0", "\"">>,
     \* order_quantity="x"
     <<"o", "r", "d", "e", "r", "_", "q", "u", "a", "n", "t", "i", "t",
       "y", "=", "\"", "x", "\"">>,
     \* requested_fulfillment_date="5/1/25"
     <<"r", "e", "q", "u", "e", "s", "t", "e", "d", "_", "f", "u", "l",
       "f", "i", "l", "l", "m", "e", "n", "t", "_", "d", "a", "t", "e",
       "=", "\"", "5", "/", "1", "/", "2", "5", "\"">>,
     \* requested_fulfillment_date="13/40/2025"
     <<"r", "e", "q", "u", "e", "s", "t", "e", "d", "_", "f", "u", "l",
       "f", "i", "l", "l", "m", "e", "n", "t", "_", "d", "a", "t", "e",
       "=", "\"", "1", "3", "/", "4", "0", "/", "2", "0", "2", "5",
       "\"">>,
     \* po_price="1.5"
     <<"p", "o", "_", "p", "r", "i", "c", "e", "=", "\"", "1", ".", "5",
       "\"">>,
     \* po_price="abc"
     <<"p", "o", "_", "p", "r", "i", "c", "e", "=", "\"", "a", "b", "c",
       "\"">>,
     \* nokey
     <<"n", "o", "k", "e", "y">>,
     \* U+3000 (IDEOGRAPHIC SPACE) around po_price = "1.5"
     <<"U+3000", "p", "o", "_", "p", "r", "i", "c", "e", "U+3000", "=",
       "U+3000", "\"", "1", ".", "5", "\"", "U+3000">>,
     \* Order_Quantity="2"
     <<"O", "r", "d", "e", "r", "_", "Q", "u", "a", "n", "t", "i", "t",
       "y", "=", "\"", "2", "\"">>,
     \* (an empty segment)
     <<>>}

PartNumbers ==
    {<<"3", "0", "1", "0", "2", "2", "8", "0", "0", "2">>,
     <<" ", "A", "-", "1", " ">>}
Fractions == {<<>>, <<".", "0", "0", "0">>, <<".", "9">>}

\* Calendar dates <<year, month, day>> within and beyond the %y window,
\* one of them of a year below 1000.
DatesInWindow ==
    {<<1969, 12, 13>>, <<2000, 1, 1>>, <<2024, 2, 29>>, <<2025, 2, 13>>,
     <<2068, 12, 29>>}
DatesBeyondWindow ==
    {<<1950, 2, 13>>, <<2069, 12, 29>>, <<1968, 5, 1>>, <<999, 2, 13>>}

\* The four digits of a year, as %Y reads them.
FourDigits(n) ==
    <<DigitChars[(n \div 1000) + 1], DigitChars[((n \div 100) % 10) + 1],
      DigitChars[((n \div 10) % 10) + 1], DigitChars[(n % 10) + 1]>>

\* MM/DD/YY or MM/DD/YYYY text of a calendar date, month and day
\* zero-padded or not.
DateText(date, fmt, padded) ==
    LET field(n) == IF padded THEN TwoDigits(n) ELSE NumeralOf(n)
    IN  field(date[2]) \o <<"/">> \o field(date[3]) \o <<"/">>
           \o (IF fmt = "%m/%d/%y" THEN TwoDigits(date[1] % 100)
               ELSE FourDigits(date[1]))

DateStyles ==
    {[date |-> d, fmt |-> f, padded |-> p] :
        d \in DatesInWindow \cup DatesBeyondWindow,
        f \in {"%m/%d/%y", "%m/%d/%Y"}, p \in BOOLEAN}
WellFormedDates ==
    {x \in DateStyles : x.fmt = "%m/%d/%y" => x.date \in DatesInWindow}

\* [-]whole.cc, the decimal text of a price of (100 * whole + cents) cents.
PriceText(neg, whole, cents) ==
    (IF neg THEN <<"-">> ELSE <<>>) \o NumeralOf(whole) \o <<".">>
        \o TwoDigits(cents)

\* order_quantity texts: [sign]whole[fraction] numbers, numerals beyond
\* the double range, and texts that are no number.
Signs == {<<>>, <<"-">>, <<"+">>}
QuantityNumbers ==
    {[kind |-> "number", negative |-> sg = <<"-">>, whole |-> w,
      fraction |-> f, text |-> sg \o NumeralOf(w) \o f] :
        sg \in Signs, w \in {0, 1, 5}, f \in Fractions}
QuantityInfinite ==
    {[kind |-> "infinite", negative |-> FALSE, text |-> t] : t \in
        {<<"i", "n", "f">>,
        <<"I", "n", "f", "i", "n", "i", "t", "y">>,
        <<"1", "e", "9", "9", "9">>}}
    \cup
    {[kind |-> "infinite", negative |-> TRUE, text |-> t] : t \in
        {<<"-", "i", "n", "f">>,
        <<"-", "1", "e", "9", "9", "9">>}}
\* Numbers in other digits and behind other whitespace than ASCII's, and
\* numerals that no double holds: U+0663 is ARABIC-INDIC DIGIT THREE,
\* U+FF15 FULLWIDTH DIGIT FIVE, U+00A0 NO-BREAK SPACE.
QuantityOtherNumbers ==
    {[kind |-> "number", negative |-> FALSE, whole |-> 3, fraction |-> <<>>,
      text |-> <<"U+0663">>],
     [kind |-> "number", negative |-> TRUE, whole |-> 5, fraction |-> <<>>,
      text |-> <<"-", "U+FF15">>],
     [kind |-> "number", negative |-> FALSE, whole |-> 2, fraction |-> <<>>,
      text |-> <<"U+00A0", "2", "U+000B">>],
     [kind |-> "number", negative |-> FALSE, whole |-> 0,
      fraction |-> <<".", "9", "9", "9", "9", "9", "9", "9", "9", "9", "9",
                     "9", "9", "9", "9", "9", "9", "9">>,
      text |-> <<"0", ".", "9", "9", "9", "9", "9", "9", "9", "9", "9", "9",
                 "9", "9", "9", "9", "9", "9", "9">>],
     [kind |-> "number", negative |-> FALSE, whole |-> 0, fraction |-> <<>>,
      text |-> <<"1", "e", "-", "4", "0", "0">>]}
QuantityNoNumber ==
    {[kind |-> "text", text |-> t] : t \in
        {<<"a", "b", "c">>,
        <<"U+001C", "2">>,
        <<"2", "U+00E9">>,
        <<>>,
        <<"n", "a", "n">>,
        <<"1", "_", "_", "0">>,
        <<"-", "-", "5">>,
        <<"1", "2", "a">>,
        <<"1", " ", "0">>}}

\* requested_fulfillment_date texts, field by field.
MonthTexts == {<<"2">>,
     <<"U+0662">>,
     <<"0", "2">>,
     <<"1", "2">>,
     <<"1", "3">>,
     <<"0">>}
DayTexts == {<<"1", "3">>,
     <<"1", "U+0663">>,
     <<"2", "9">>,
     <<"4", "0">>,
     <<"5">>,
     <<" ", "5">>}
YearTexts ==
    {<<"2", "5">>,
     <<"U+0662", "U+0665">>,
     <<"2", "0", "2", "5">>,
     <<"1", "9", "5", "0">>,
     <<"6", "8">>,
     <<"6", "9">>,
     <<"2", "3">>,
     <<"2", "0", "2", "4">>,
     <<"0", "9", "9", "9">>}
DateTexts ==
    {m \o <<"/">> \o d \o <<"/">> \o y :
        m \in MonthTexts, d \in DayTexts, y \in YearTexts}
    \cup {<<>>,
          <<"2", "0", "2", "5", "-", "0", "2", "-", "1", "3">>,
          <<"0", "2", "/", "1", "3", "/", "2", "5", " ">>,
          <<"0", "2", "/", "1", "3", "/", "2", "0", "2", "5", "/", "1">>}

\* Texts written after "buyer_part_number=": quotes, "=", blanks, letters.
ValueTexts ==
    SeqsUpTo({"\"", "=", " ", "U+00A0", "a"}, MaxValueLen)
        \cup {<<"\"", "\"", "a", "\"", "\"">>}

BuyerNames ==
    {<<>>,
     <<" ", " ">>,
     <<"U+00A0">>,
     <<"A", "c", "m", "e", " ", "C", "o", "r", "p">>,
     <<" ", "3", "M", " ", "G", "l", "o", "b", "a", "l", " ">>,
     <<"3", "M", " ", "G", "l", "o", "b", "a", "l">>}

ValidQuantity == Assign(K_order_quantity, <<"2">>)
ValidDate == Assign(K_requested_fulfillment_date, <<"5", "/", "1", "/", "2", "5">>)
ValidPrice == Assign(K_po_price, <<"1", ".", "5">>)
ValidPartNumber == Assign(K_buyer_part_number, <<"A", "1">>)

NoKwargs == [kind |-> "empty", buyername |-> <<>>]

Start(t, inp, kw, g) ==
    /\ tool = t
    /\ entry \in {"build", "tool"}
    /\ input_str = inp
    /\ kwargs = kw
    /\ given = g
    /\ pc = "start"
    /\ parts = <<>>
    /\ k = 0
    /\ buyer_part_number = None
    /\ order_quantity = None
    /\ requested_fulfillment_date = None
    /\ po_price_str = None
    /\ order_quantity_int = None
    /\ requested_date_obj = NoValue
    /\ po_price_float = NoValue
    /\ buyername = None
    /\ requests = <<>>
    /\ result = NoResult
    /\ status = None
    /\ raised = ""
    /\ output = None

\* Any sequence of pool segments, for either tool.
InitSegments ==
    \E t \in {StockCheckTool, PriceCheckTool},
       segs \in SeqsUpTo(SegmentPool, MaxSegments) :
        Start(t, Compose(segs), NoKwargs,
              [family |-> "segments", segments |-> segs])

\* Each inventory field once, with valid values, in any order.
InitStockWellFormed ==
    \E f \in Perms(3), p \in PartNumbers, w \in {1, 32100},
       fr \in Fractions, d \in WellFormedDates :
        Start(StockCheckTool,
              Compose(Permuted(
                  <<Assign(K_buyer_part_number, p),
                    Assign(K_order_quantity, NumeralOf(w) \o fr),
                    Assign(K_requested_fulfillment_date,
                           DateText(d.date, d.fmt, d.padded))>>, f)),
              NoKwargs,
              [family |-> "wellformed", order |-> f, part_number |-> p,
               whole |-> w, fraction |-> fr, date |-> d.date])

\* Each price field once, with valid values, in any order.
InitPriceWellFormed ==
    \E f \in Perms(2), p \in PartNumbers, neg \in BOOLEAN,
       w \in {0, 125}, c \in {0, 5, 50} :
        Start(PriceCheckTool,
              Compose(Permuted(
                  <<Assign(K_buyer_part_number, p),
                    Assign(K_po_price, PriceText(neg, w, c))>>, f)),
              NoKwargs,
              [family |-> "wellformed", order |-> f, part_number |-> p,
               negative |-> neg, cents |-> 100 * w + c])

\* A well-formed inventory input but for the order_quantity text.
InitQuantity ==
    \E q \in QuantityNumbers \cup QuantityOtherNumbers \cup QuantityInfinite
                \cup QuantityNoNumber :
        Start(StockCheckTool,
              Compose(<<ValidPartNumber, Assign(K_order_quantity, q.text),
                        ValidDate>>),
              NoKwargs, [family |-> "quantity", quantity |-> q])

\* A well-formed inventory input but for the date text.
InitDate ==
    \E d \in DateTexts :
        Start(StockCheckTool,
              Compose(<<ValidPartNumber, ValidQuantity,
                        Assign(K_requested_fulfillment_date, d)>>),
              NoKwargs, [family |-> "date", text |-> d])

\* A well-formed input but for what follows "buyer_part_number=".
InitValue ==
    \E v \in ValueTexts :
        \/ Start(StockCheckTool,
                 Compose(<<K_buyer_part_number \o <<"=">> \o v,
                           ValidQuantity, ValidDate>>),
                 NoKwargs, [family |-> "value", text |-> v])
        \/ Start(PriceCheckTool,
                 Compose(<<K_buyer_part_number \o <<"=">> \o v, ValidPrice>>),
                 NoKwargs, [family |-> "value", text |-> v])

\* CreditCheckTool.build with a buyer name, directly or in a dictionary.
InitCredit ==
    \E kind \in {"direct", "nested", "empty"}, name \in BuyerNames :
        /\ kind = "empty" => name = <<>>
        /\ Start(CreditCheckTool, None, [kind |-> kind, buyername |-> name],
                 [family |-> "credit"])
        \* credit_check_service calls build(buyername=buyername)
        /\ entry = "tool" => kind = "direct"

Init ==
    \/ InitSegments
    \/ InitStockWellFormed
    \/ InitPriceWellFormed
    \/ InitQuantity
    \/ InitDate
    \/ InitValue
    \/ InitCredit

Next ==
    \/ StockSplit
    \/ StockSegment
    \/ StockValidatePartNumber
    \/ StockValidateQuantity
    \/ StockValidateDate
    \/ StockRequest
    \/ StockResponse
    \/ StockProcessInput
    \/ PriceSplit
    \/ PriceSegment
    \/ PriceValidatePartNumber
    \/ PriceValidatePrice
    \/ PriceRequest
    \/ PriceResponse
    \/ PriceProcessInput
    \/ CreditExtract
    \/ CreditRequest
    \/ CreditResponse
    \/ credit_check_service

Spec == Init /\ [][Next]_vars

(***************************************************************************)
(* Vocabulary of the properties.  The claims speak of keys, values and     *)
(* checks; these definitions restate them from the segments of the input,  *)
(* without the operators the actions use to take a segment apart.          *)
(***************************************************************************)
ParseTool == tool \in {StockCheckTool, PriceCheckTool}
Terminal == pc = "raised" \/ pc = "returned" \/ (pc = "done" /\ entry = "build")
Returned == pc \in {"done", "returned"}

SchemaKeys ==
    IF tool = StockCheckTool
    THEN {K_buyer_part_number, K_order_quantity, K_requested_fulfillment_date}
    ELSE {K_buyer_part_number, K_po_price}
SchemaLen == Cardinality(SchemaKeys)

\* s without its leading and trailing characters of chars.
Peel(s, chars) ==
    LET keep == {i \in 1..Len(s) : s[i] \notin chars}
    IN  IF keep = {} THEN <<>>
        ELSE SubSeq(s, CHOOSE i \in keep : \A j \in keep : i <= j,
                       CHOOSE i \in keep : \A j \in keep : j <= i)

HasEquals(part) == \E i \in 1..Len(part) : part[i] = "="
FirstEquals(part) ==
    CHOOSE i \in 1..Len(part) :
        part[i] = "=" /\ \A j \in 1..(i - 1) : part[j] # "="
\* The key and the value a segment with "=" assigns.
KeyIn(part) == Peel(SubSeq(part, 1, FirstEquals(part) - 1), Whitespace)
ValueIn(part) ==
    Peel(Peel(SubSeq(part, FirstEquals(part) + 1, Len(part)), Whitespace),
         {"\""})

\* The segments the loop rejects, and the value a field is left with.
BadSegments ==
    {i \in 1..Len(parts) :
        ~HasEquals(parts[i]) \/ KeyIn(parts[i]) \notin SchemaKeys}
Assigning(name) ==
    {i \in 1..Len(parts) : HasEquals(parts[i]) /\ KeyIn(parts[i]) = name}
FieldValue(name) ==
    IF Assigning(name) = {} THEN None
    ELSE ValueIn(parts[CHOOSE i \in Assigning(name) :
                           \A j \in Assigning(name) : j <= i])

NoError == <<>>
\* The error of the first failing check, in the order: segment count;
\* segments left to right (no "=", then unrecognized key); part number;
\* number (numeric, then positive); date.  NoError when every check passes.
FirstFailingCheck ==
    IF Len(parts) # SchemaLen
    THEN (IF tool = StockCheckTool THEN StockSegmentCountError
          ELSE PriceSegmentCountError)
    ELSE IF BadSegments # {}
    THEN LET i == CHOOSE b \in BadSegments : \A j \in BadSegments : b <= j
         IN  IF ~HasEquals(parts[i]) THEN CouldNotParseError(parts[i])
             ELSE UnrecognizedKeyError(KeyIn(parts[i]), parts[i])
    ELSE IF FieldValue(K_buyer_part_number) = None
            \/ Peel(FieldValue(K_buyer_part_number), Whitespace) = <<>>
    THEN PartNumberError
    ELSE IF tool = StockCheckTool
    THEN LET q == FieldValue(K_order_quantity)
             d == FieldValue(K_requested_fulfillment_date)
         IN  IF q = None \/ float(q).cls \in {"ValueError", "nan"}
             THEN QuantityIntegerError
             ELSE IF \/ float(q).cls = "inf" /\ float(q).neg
                     \/ float(q).cls = "finite" /\ IsNonPositive(int(float(q)))
             THEN QuantityPositiveError
             ELSE IF d = None \/ ParseDate(d, tried_formats).cls # "date"
             THEN DateFormatError
             ELSE NoError
    ELSE LET p == FieldValue(K_po_price)
         IN  IF p = None \/ float(p).cls = "ValueError"
             THEN PriceNumberError
             ELSE NoError

\* C1: the parse and validation phase of the inventory and price tools
\* never ends in an unhandled exception, whatever the input.
C1_NeverRaises == ParseTool => (pc # "raised" /\ raised = "")

\* C2: when every segment is a recognized assignment and the count is
\* right but a key repeats, so that a field of the schema is never
\* assigned, the run returns an error carrying a field-specific message
\* (the part-number message when that field is the unassigned one) and
\* sends no request.
C2_UnassignedFieldIsAnError ==
    (/\ ParseTool /\ Terminal
     /\ Len(parts) = SchemaLen /\ BadSegments = {}
     /\ \E name \in SchemaKeys : FieldValue(name) = None)
    => /\ raised = ""
       /\ DOMAIN result = {"error"}
       /\ result.error \in {PartNumberError, QuantityIntegerError,
                            QuantityPositiveError, DateFormatError,
                            PriceNumberError}
       /\ FieldValue(K_buyer_part_number) = None
             => result.error = PartNumberError
       /\ requests = <<>>

\* C3: a run ends with exactly the error of the first failing check of the
\* fixed order, whatever the order of the segments; when no check fails
\* the request is made.
C3_FirstFailingCheckReported ==
    (ParseTool /\ Terminal)
    => /\ raised = ""
       /\ IF FirstFailingCheck = NoError
          THEN Len(requests) = 1
          ELSE /\ result = [error |-> FirstFailingCheck]
               /\ status = FirstFailingCheck
               /\ requests = <<>>

\* The ISO text YYYY-MM-DD of a calendar date <<year, month, day>>.
IsoText(date) ==
    FourDigits(date[1]) \o <<"-">> \o TwoDigits(date[2]) \o <<"-">>
        \o TwoDigits(date[3])

RECURSIVE Pow10(_)
Pow10(n) == IF n = 0 THEN 1 ELSE 10 * Pow10(n - 1)
\* |f| to 15 significant digits, half up: the decimal of at most 15
\* digits that a double nearest to one is nearest to.
Decimal15(f) ==
    IF Len(f.digits) <= 15 THEN f
    ELSE LET head == SubSeq(f.digits, 1, 15)
             h    == IF DigitVal(f.digits[16]) >= 5 THEN Successor(head)
                     ELSE head
         IN  [f EXCEPT !.digits = rstrip(h, {"0"}),
                       !.exp = f.exp + (Len(h) - 15)]
\* 100 * |f| for a finite float f of a whole number of hundredths.
HundredthsOf(f) ==
    LET d == Decimal15(f)
    IN  IF d.digits = <<>> THEN 0
        ELSE NatOf(d.digits) * Pow10(d.exp - Len(d.digits) + 2)

\* C4: a well-formed input, its segments in any order, parses to the
\* record of its values: the part number unquoted, the quantity truncated
\* toward zero, the date as YYYY-MM-DD, the price as the float it denotes;
\* the run raises nothing and returns only after its request.
C4_WellFormedRecord ==
    given.family = "wellformed"
    => /\ raised = ""
       /\ Returned => Len(requests) = 1
       /\ pc \in {"request", "response", "done", "returned"}
          => /\ buyer_part_number = given.part_number
             /\ IF tool = StockCheckTool
                THEN /\ order_quantity_int = NumeralOf(given.whole)
                     /\ requested_date_obj =
                           [cls |-> "date", year |-> given.date[1],
                            month |-> given.date[2], day |-> given.date[3]]
                     /\ \A i \in 1..Len(requests) :
                           /\ requests[i].params.order_quantity
                                 = NumeralOf(given.whole)
                           /\ requests[i].params.requested_fulfillment_date
                                 = IsoText(given.date)
                     /\ "message" \in DOMAIN result
                           => /\ result.buyer_part_number = given.part_number
                              /\ result.order_quantity = NumeralOf(given.whole)
                              /\ result.requested_fulfillment_date
                                    = IsoText(given.date)
                ELSE /\ po_price_float.cls = "finite"
                     /\ po_price_float.neg = given.negative
                     /\ HundredthsOf(po_price_float) = given.cents
                     /\ \A i \in 1..Len(requests) :
                           requests[i].params.po_price = po_price_float
                     /\ "message" \in DOMAIN result
                           => /\ result.buyer_part_number = given.part_number
                              /\ result.po_price = po_price_float

\* C5: with the other fields valid, an order_quantity that is no number
\* gets the valid-integer message, a number whose truncation is <= 0 the
\* positive-integer message, and a number whose truncation is >= 1 is
\* accepted; there is no other outcome.
C5_QuantityOutcomes ==
    (given.family = "quantity" /\ Terminal)
    => LET q == given.quantity
       IN  IF q.kind = "text"
           THEN result = [error |-> QuantityIntegerError]
           ELSE IF q.negative \/ (q.kind = "number" /\ q.whole = 0)
           THEN result = [error |-> QuantityPositiveError]
           ELSE raised = "" /\ Len(requests) = 1

\* A date written back as MM/DD/YY and as MM/DD/YYYY (zero-padded).
FormatMDY2(d) ==
    TwoDigits(d.month) \o <<"/">> \o TwoDigits(d.day) \o <<"/">>
        \o TwoDigits(d.year % 100)
FormatMDY4(d) ==
    TwoDigits(d.month) \o <<"/">> \o TwoDigits(d.day) \o <<"/">>
        \o FourDigits(d.year)
Reparsed(text) == ParseDate(text, tried_formats)

\* C6 as stated: every accepted date, written back in either accepted
\* format and parsed again, is the same date.
C6_RoundTripEitherFormat ==
    requested_date_obj.cls = "date"
    => /\ Reparsed(FormatMDY2(requested_date_obj)) = requested_date_obj
       /\ Reparsed(FormatMDY4(requested_date_obj)) = requested_date_obj

\* C6 amended: every accepted date written back as MM/DD/YYYY parses to
\* the same date; written back as MM/DD/YY it does exactly when its year
\* is within 1969..2068, the window of two-digit years; "02/13/25" and
\* "02/13/2025" both normalize to "2025-02-13".
C6_RoundTripWithinWindow ==
    requested_date_obj.cls = "date"
    => /\ Reparsed(FormatMDY4(requested_date_obj)) = requested_date_obj
       /\ Reparsed(FormatMDY2(requested_date_obj)) = requested_date_obj
             <=> requested_date_obj.year \in 1969..2068
       /\ requested_fulfillment_date \in
             {<<"0", "2", "/", "1", "3", "/", "2", "5">>,
              <<"0", "2", "/", "1", "3", "/", "2", "0", "2", "5">>}
             => strftime(requested_date_obj)
                   = <<"2", "0", "2", "5", "-", "0", "2", "-", "1", "3">>

\* C6 witness: a date of 1950, outside the window, was accepted and sent.
C6_Witness ==
    /\ requested_date_obj.cls = "date" /\ requested_date_obj.year = 1950
    /\ requested_fulfillment_date
          = <<"0", "2", "/", "1", "3", "/", "1", "9", "5", "0">>
    /\ Len(requests) = 1

\* s without one leading and one trailing quote, where present.
OneLayerOff(s) ==
    LET a == IF s # <<>> /\ s[1] = "\"" THEN 2 ELSE 1
        b == IF Len(s) >= a /\ s[Len(s)] = "\"" THEN Len(s) - 1 ELSE Len(s)
    IN  SubSeq(s, a, b)
FirstSegmentDone == pc # "start" /\ ~(pc = "segments" /\ k = 1)

\* C7 as stated: the value of a field is the text after the first "=",
\* trimmed, less exactly one layer of quotes.
C7_OneLayerStripped ==
    (given.family = "value" /\ FirstSegmentDone)
    => buyer_part_number = OneLayerOff(Peel(given.text, Whitespace))

\* C7 amended: the value of a field is the text after the first "=" (which
\* may contain "="), trimmed, less every leading and every trailing quote,
\* its interior unchanged.
C7_AllQuotesStripped ==
    (given.family = "value" /\ FirstSegmentDone)
    => buyer_part_number = Peel(Peel(given.text, Whitespace), {"\""})

\* C7 witness: the value ""a"", in two layers of quotes, was assigned as a.
C7_Witness ==
    /\ given.family = "value"
    /\ given.text = <<"\"", "\"", "a", "\"", "\"">>
    /\ FirstSegmentDone
    /\ buyer_part_number = <<"a">>

\* The segments that have a key, and one that is no field of the schema.
Unrecognized ==
    {i \in 1..Len(parts) :
        HasEquals(parts[i]) /\ KeyIn(parts[i]) \notin SchemaKeys}
UnrecognizedText(i) ==
    <<"Unrecognized key '">> \o KeyIn(parts[i]) \o <<"' in segment: ">>
        \o parts[i]

\* C8 as stated: an input of the right segment count with a segment whose
\* key is no field of the schema fails with the unrecognized-key error of
\* such a segment, whatever the other segments contain.
C8_UnrecognizedKeyAlways ==
    (ParseTool /\ Terminal /\ Len(parts) = SchemaLen /\ Unrecognized # {})
    => \E i \in Unrecognized : result = [error |-> UnrecognizedText(i)]

\* C8 amended: such an input fails with the unrecognized-key error of its
\* first such segment, unless a segment before that one has no "=": then
\* it fails with the could-not-parse error of the first segment without
\* "=".  Either way no request is sent.
C8_UnrecognizedKeyUnlessEarlierMalformed ==
    (ParseTool /\ Terminal /\ Len(parts) = SchemaLen /\ Unrecognized # {})
    => LET i == CHOOSE u \in Unrecognized : \A j \in Unrecognized : u <= j
           malformed == {j \in 1..(i - 1) : ~HasEquals(parts[j])}
       IN  /\ raised = "" /\ requests = <<>>
           /\ IF malformed = {}
              THEN result = [error |-> UnrecognizedText(i)]
              ELSE result =
                     [error |-> <<"Could not parse segment: ">>
                        \o parts[CHOOSE m \in malformed :
                                    \A j \in malformed : m <= j]]

\* C8 witness: the key Order_Quantity, in the second of three segments
\* after a valid first one, was reported as unrecognized.
C8_Witness ==
    /\ tool = StockCheckTool /\ Terminal /\ Len(parts) = 3
    /\ Unrecognized = {2}
    /\ KeyIn(parts[2]) = <<"O", "r", "d", "e", "r", "_", "Q", "u", "a", "n",
                           "t", "i", "t", "y">>
    /\ HasEquals(parts[1]) /\ KeyIn(parts[1]) = K_buyer_part_number
    /\ result = [error |-> UnrecognizedText(2)]

\* C9: CreditCheckTool.build asks for the buyer name it is given, trimmed,
\* and reports it in the result; given a blank name it returns the error
\* "No valid buyer name provided" and sends no request.
C9_CreditUsesGivenName ==
    (tool = CreditCheckTool /\ pc # "start")
    => LET name == Peel(IF kwargs.kind = "empty" THEN <<>>
                        ELSE kwargs.buyername, Whitespace)
       IN  IF name # <<>>
           THEN /\ \A i \in 1..Len(requests) :
                      requests[i].params.buyername = name
                /\ "buyername" \in DOMAIN result => result.buyername = name
                /\ Returned => Len(requests) = 1
           ELSE /\ result = [error |-> BuyerNameError]
                /\ requests = <<>>

\* C10: a run of the inventory or price tool issues at most one request,
\* only when every check has passed and with exactly the validated values
\* as parameters; a run that ends without a request has returned a result
\* holding only 'error', with status set to the same message.
C10_RequestOnlyAfterValidation ==
    ParseTool
    => /\ Len(requests) <= 1
       /\ requests # <<>>
          => /\ FirstFailingCheck = NoError
             /\ requests[1].params.buyer_part_number
                   = Peel(FieldValue(K_buyer_part_number), Whitespace)
             /\ IF tool = StockCheckTool
                THEN /\ requests[1].params.order_quantity
                           = int(float(FieldValue(K_order_quantity)))
                     /\ requests[1].params.requested_fulfillment_date
                           = strftime(Reparsed(
                                 FieldValue(K_requested_fulfillment_date)))
                ELSE requests[1].params.po_price
                        = float(FieldValue(K_po_price))
       /\ (Terminal /\ requests = <<>>)
          => /\ DOMAIN result = {"error"}
             /\ status = result.error

\* The two shapes of a result: the fields of the schema, holding the values
\* the input assigned, plus 'message'; or 'error' alone.
SuccessFields ==
    IF tool = StockCheckTool
    THEN {"buyer_part_number", "order_quantity",
          "requested_fulfillment_date", "message"}
    ELSE {"buyer_part_number", "po_price", "message"}
IsSuccessRecord ==
    /\ DOMAIN result = SuccessFields
    /\ result.buyer_part_number = FieldValue(K_buyer_part_number)
    /\ IF tool = StockCheckTool
       THEN /\ result.order_quantity
                  = int(float(FieldValue(K_order_quantity)))
            /\ result.requested_fulfillment_date
                  = strftime(Reparsed(FieldValue(K_requested_fulfillment_date)))
       ELSE result.po_price = float(FieldValue(K_po_price))
IsErrorRecord == DOMAIN result = {"error"}

\* C11: the result of every completed build of the inventory and price
\* tools is exactly one of a success record (the field values plus
\* 'message', no 'error') and an error record ('error' alone), the latter
\* also when the request itself failed; process_input then returns the
\* message of a success record and the error text of an error record,
\* never the fallback "No result".
C11_OneShapeAndItsText ==
    (ParseTool /\ Returned)
    => LET success == IsSuccessRecord
       IN  /\ success # IsErrorRecord
           /\ success => Len(requests) = 1
           /\ pc = "returned"
              => /\ output = IF success THEN result.message
                             ELSE result.error
                 /\ output # <<"No result">>

\* C11 witness: the inventory request timed out after a valid input, and
\* process_input returned the text of the error record.
C11_Witness ==
    /\ tool = StockCheckTool /\ pc = "returned"
    /\ Len(requests) = 1
    /\ result = [error |-> <<"Stock check failed: ", "Read timed out.">>]
    /\ output = result.error

====
